---- MODULE Spec2Model ----
(***************************************************************************)
(* Alert lifecycle state machines of degrade/alertmanager.                 *)
(*                                                                         *)
(* Time is modelled in abstract ticks.  A time.Time is a natural number,   *)
(* ZeroTime is the zero value time.Time{}, and every other instant is      *)
(* >= 1.  A time.Duration is an integer number of ticks.  The wall clock   *)
(* read by time.Now() is the variable `now`; the evaluation timestamp ts   *)
(* handed to Transition is an input that is independent of the wall clock. *)
(***************************************************************************)
EXTENDS Integers, Sequences, FiniteSets, TLC

\* ---------------------------------------------------------------- bounds
MaxTime == 2   \* instants are 1..MaxTime
MaxDur  == 2   \* configured durations are 0..MaxDur

Times     == 1..MaxTime
Durations == 0..MaxDur

\* ------------------------------------------------------------- constants
ZeroTime == 0

AlertTypeBasic     == "basic"
AlertTypeMultiTier == "multi-tier"

AlertStateInactive == "inactive"
AlertStatePending  == "pending"
AlertStateFiring   == "firing"
AlertStateL0 == "l0"
AlertStateL1 == "l1"
AlertStateL2 == "l2"
AlertStateL3 == "l3"

EventTrigger == "trigger"
EventRecover == "recover"
EventFire    == "fire"
EventResolve == "resolve"

\* ------------------------------------------------------------- time.Time
\* Largest duration Sub can return; larger than any modelled threshold.
maxDuration == MaxTime + MaxDur + 1

\* t.Sub(u): the difference, saturated when one side is the zero time
\* (which lies centuries before every other instant).
Sub(t, u) ==
    IF u = ZeroTime /\ t # ZeroTime THEN maxDuration
    ELSE IF t = ZeroTime /\ u # ZeroTime THEN 0 - maxDuration
    ELSE t - u

\* Reading a Go map: a missing key yields the zero value.
MapGet(m, k) == IF k \in DOMAIN m THEN m[k] ELSE ZeroTime

\* Writing a Go map: insert or overwrite.
MapSet(m, k, v) == [x \in (DOMAIN m) \cup {k} |-> IF x = k THEN v ELSE m[x]]

\* ------------------------------------------------- generic fsm (looplab)
\* fsm.Event(name) in state cur: the transition registered for (name, cur).
FsmCan(events, cur, name) == \E e \in events : e.Name = name /\ cur \in e.Src

FsmDst(events, cur, name) ==
    (CHOOSE e \in events : e.Name = name /\ cur \in e.Src).Dst

\* What Transition returns.
Result(m, notify, err) == [fsm |-> m, notify |-> notify, err |-> err]

\* -------------------------------------------------------- AlertOpts
AlertOpts ==
    [HoldDuration : Durations, KeepFiringFor : Durations, ResendDelay : Durations,
     RecoverDuration : Durations, AutoRecoverAfter : Durations]

\* ------------------------------------------------------ PromAlertFsm
\* Mutant of PromEvents: resolve is registered for firing only.
PromEvents_ResolveFiringOnly ==
    { [Name |-> EventTrigger, Src |-> {AlertStateInactive}, Dst |-> AlertStatePending],
      [Name |-> EventFire, Src |-> {AlertStatePending, AlertStateInactive},
       Dst |-> AlertStateFiring],
      [Name |-> EventResolve, Src |-> {AlertStateFiring}, Dst |-> AlertStateInactive] }

PromEvents ==
    { [Name |-> EventTrigger, Src |-> {AlertStateInactive}, Dst |-> AlertStatePending],
      [Name |-> EventFire, Src |-> {AlertStatePending, AlertStateInactive},
       Dst |-> AlertStateFiring],
      [Name |-> EventResolve, Src |-> {AlertStatePending, AlertStateFiring},
       Dst |-> AlertStateInactive] }

NewPromAlertFsm ==
    [current |-> AlertStateInactive, activeAt |-> ZeroTime, firedAt |-> ZeroTime,
     lastSentAt |-> ZeroTime]

\* Mutant of PromCallbacks: enter_inactive leaves firedAt as it is.
PromCallbacks_KeepFiredAt(a, src, dst, wall) ==
    IF dst = AlertStatePending THEN [a EXCEPT !.activeAt = wall]
    ELSE IF dst = AlertStateFiring THEN [a EXCEPT !.firedAt = wall]
    ELSE a

\* callbacks enter_pending, enter_firing, enter_inactive; wall is time.Now().
PromCallbacks(a, src, dst, wall) ==
    IF dst = AlertStatePending THEN [a EXCEPT !.activeAt = wall]
    ELSE IF dst = AlertStateFiring THEN [a EXCEPT !.firedAt = wall]
    ELSE IF dst = AlertStateInactive /\ src = AlertStateFiring
         THEN [a EXCEPT !.firedAt = ZeroTime]
    ELSE a

\* a.fsm.Event(ctx, name): [fsm, err]
PromEvent(a, name, wall) ==
    IF ~FsmCan(PromEvents, a.current, name)
    THEN [fsm |-> a, err |-> TRUE]
    ELSE LET dst == FsmDst(PromEvents, a.current, name)
         IN  [fsm |-> PromCallbacks([a EXCEPT !.current = dst], a.current, dst, wall),
              err |-> FALSE]

\* case !active && current != AlertStateInactive
PromResolve(a, wall) ==
    LET r == PromEvent(a, EventResolve, wall)
    IN  IF r.err THEN Result(a, FALSE, TRUE) ELSE Result(r.fsm, TRUE, FALSE)

\* Mutant of PromFromInactive: immediate firing forgets a.lastSentAt = ts.
PromFromInactive_NoStamp(a, ts, opts, wall) ==
    IF opts.HoldDuration = 0
    THEN LET r == PromEvent(a, EventFire, wall)
         IN  IF r.err THEN Result(a, FALSE, TRUE) ELSE Result(r.fsm, TRUE, FALSE)
    ELSE LET r == PromEvent(a, EventTrigger, wall)
         IN  IF r.err THEN Result(a, FALSE, TRUE) ELSE Result(r.fsm, FALSE, FALSE)

\* case active && current == AlertStateInactive
PromFromInactive(a, ts, opts, wall) ==
    IF opts.HoldDuration = 0
    THEN LET r == PromEvent(a, EventFire, wall)
         IN  IF r.err THEN Result(a, FALSE, TRUE)
             ELSE Result([r.fsm EXCEPT !.lastSentAt = ts], TRUE, FALSE)
    ELSE LET r == PromEvent(a, EventTrigger, wall)
         IN  IF r.err THEN Result(a, FALSE, TRUE) ELSE Result(r.fsm, FALSE, FALSE)

\* case active && current == AlertStatePending
PromFromPending(a, ts, opts, wall) ==
    IF Sub(ts, a.activeAt) < opts.HoldDuration
    THEN Result(a, FALSE, FALSE)
    ELSE LET r == PromEvent(a, EventFire, wall)
         IN  IF r.err THEN Result(a, FALSE, TRUE)
             ELSE Result([r.fsm EXCEPT !.lastSentAt = ts], TRUE, FALSE)

\* Mutant of PromResend: the delay must be exceeded (> instead of >=).
PromResend_Strict(a, ts, opts) ==
    IF opts.ResendDelay > 0 /\ Sub(ts, a.lastSentAt) > opts.ResendDelay
    THEN Result([a EXCEPT !.lastSentAt = ts], TRUE, FALSE)
    ELSE Result(a, FALSE, FALSE)

\* Mutant of PromResend: the opts.ResendDelay > 0 test is missing.
PromResend_NoZeroTest(a, ts, opts) ==
    IF Sub(ts, a.lastSentAt) >= opts.ResendDelay
    THEN Result([a EXCEPT !.lastSentAt = ts], TRUE, FALSE)
    ELSE Result(a, FALSE, FALSE)

\* the resend check at the end of case active && current == AlertStateFiring
PromResend(a, ts, opts) ==
    IF opts.ResendDelay > 0 /\ Sub(ts, a.lastSentAt) >= opts.ResendDelay
    THEN Result([a EXCEPT !.lastSentAt = ts], TRUE, FALSE)
    ELSE Result(a, FALSE, FALSE)

\* Mutant of PromFromFiring: the resend check runs before keep-firing.
PromFromFiring_ResendFirst(a, ts, opts, wall) ==
    IF opts.ResendDelay > 0 /\ Sub(ts, a.lastSentAt) >= opts.ResendDelay
    THEN Result([a EXCEPT !.lastSentAt = ts], TRUE, FALSE)
    ELSE IF opts.KeepFiringFor > 0 /\ Sub(ts, a.firedAt) >= opts.KeepFiringFor
    THEN LET r == PromEvent(a, EventResolve, wall)
         IN  IF r.err THEN Result(a, FALSE, TRUE) ELSE Result(r.fsm, TRUE, FALSE)
    ELSE Result(a, FALSE, FALSE)

\* case active && current == AlertStateFiring
PromFromFiring(a, ts, opts, wall) ==
    IF opts.KeepFiringFor > 0 /\ Sub(ts, a.firedAt) >= opts.KeepFiringFor
    THEN LET r == PromEvent(a, EventResolve, wall)
         IN  IF r.err THEN Result(a, FALSE, TRUE) ELSE Result(r.fsm, TRUE, FALSE)
    ELSE PromResend(a, ts, opts)

PromTransition(a, active, ts, opts, wall) ==
    IF ~active /\ a.current # AlertStateInactive THEN PromResolve(a, wall)
    ELSE IF active /\ a.current = AlertStateInactive
         THEN PromFromInactive(a, ts, opts, wall)
    ELSE IF active /\ a.current = AlertStatePending
         THEN PromFromPending(a, ts, opts, wall)
    ELSE IF active /\ a.current = AlertStateFiring
         THEN PromFromFiring(a, ts, opts, wall)
    ELSE Result(a, FALSE, FALSE)

\* -------------------------------------------------------- DegradeFsm
DegradeEvents ==
    { [Name |-> EventTrigger, Src |-> {AlertStateL0}, Dst |-> AlertStateL1],
      [Name |-> EventTrigger, Src |-> {AlertStateL1}, Dst |-> AlertStateL2],
      [Name |-> EventTrigger, Src |-> {AlertStateL2}, Dst |-> AlertStateL3],
      [Name |-> EventRecover, Src |-> {AlertStateL3}, Dst |-> AlertStateL2],
      [Name |-> EventRecover, Src |-> {AlertStateL2}, Dst |-> AlertStateL1],
      [Name |-> EventRecover, Src |-> {AlertStateL1}, Dst |-> AlertStateL0],
      [Name |-> EventResolve, Src |-> {AlertStateL1, AlertStateL2, AlertStateL3},
       Dst |-> AlertStateL0] }

\* wall is the time.Now() read while constructing.
NewDegradeFsm(wall) ==
    [current |-> AlertStateL0, stateEnteredAt |-> (AlertStateL0 :> wall),
     lastSentAt |-> ZeroTime]

\* Mutant of DegradeCallbacks: stamps the state being left (e.Src).
DegradeCallbacks_StampSrc(d, src, dst, wall) ==
    [d EXCEPT !.stateEnteredAt = MapSet(@, src, wall)]

\* callback enter_state: stamps the state being entered (e.Dst).
DegradeCallbacks(d, src, dst, wall) ==
    [d EXCEPT !.stateEnteredAt = MapSet(@, dst, wall)]

\* d.fsm.Event(ctx, name): [fsm, err]
DegradeEvent(d, name, wall) ==
    IF ~FsmCan(DegradeEvents, d.current, name)
    THEN [fsm |-> d, err |-> TRUE]
    ELSE LET dst == FsmDst(DegradeEvents, d.current, name)
         IN  [fsm |-> DegradeCallbacks([d EXCEPT !.current = dst], d.current, dst, wall),
              err |-> FALSE]

\* Mutant of checkResend: a resend does not refresh d.lastSentAt.
checkResend_NoStamp(d, ts, opts) ==
    IF opts.ResendDelay = 0 THEN Result(d, FALSE, FALSE)
    ELSE IF Sub(ts, d.lastSentAt) >= opts.ResendDelay
         THEN Result(d, TRUE, FALSE)
    ELSE Result(d, FALSE, FALSE)

checkResend(d, ts, opts) ==
    IF opts.ResendDelay = 0 THEN Result(d, FALSE, FALSE)
    ELSE IF Sub(ts, d.lastSentAt) >= opts.ResendDelay
         THEN Result([d EXCEPT !.lastSentAt = ts], TRUE, FALSE)
    ELSE Result(d, FALSE, FALSE)

handleDegradation(d, current, ts, opts, wall) ==
    IF current = AlertStateL3 THEN checkResend(d, ts, opts)
    ELSE IF Sub(ts, MapGet(d.stateEnteredAt, current)) < opts.HoldDuration
         THEN Result(d, FALSE, FALSE)
    ELSE LET r == DegradeEvent(d, EventTrigger, wall)
         IN  IF r.err THEN Result(d, FALSE, TRUE)
             ELSE Result([r.fsm EXCEPT !.lastSentAt = ts], TRUE, FALSE)

\* Mutant of handleRecovery: stepwise recovery is tried before auto-recover.
handleRecovery_StepFirst(d, current, ts, opts, wall) ==
    IF Sub(ts, MapGet(d.stateEnteredAt, current)) >= opts.RecoverDuration
    THEN LET r == DegradeEvent(d, EventRecover, wall)
         IN  IF r.err THEN Result(d, FALSE, TRUE)
             ELSE Result([r.fsm EXCEPT !.lastSentAt = ts], TRUE, FALSE)
    ELSE IF opts.AutoRecoverAfter > 0
            /\ Sub(ts, MapGet(d.stateEnteredAt, current)) >= opts.AutoRecoverAfter
    THEN LET r == DegradeEvent(d, EventResolve, wall)
         IN  IF r.err THEN Result(d, FALSE, TRUE)
             ELSE Result([r.fsm EXCEPT !.lastSentAt = ts], TRUE, FALSE)
    ELSE Result(d, FALSE, FALSE)

handleRecovery(d, current, ts, opts, wall) ==
    IF opts.AutoRecoverAfter > 0
       /\ Sub(ts, MapGet(d.stateEnteredAt, current)) >= opts.AutoRecoverAfter
    THEN LET r == DegradeEvent(d, EventResolve, wall)
         IN  IF r.err THEN Result(d, FALSE, TRUE)
             ELSE Result([r.fsm EXCEPT !.lastSentAt = ts], TRUE, FALSE)
    ELSE IF Sub(ts, MapGet(d.stateEnteredAt, current)) < opts.RecoverDuration
         THEN Result(d, FALSE, FALSE)
    ELSE LET r == DegradeEvent(d, EventRecover, wall)
         IN  IF r.err THEN Result(d, FALSE, TRUE)
             ELSE Result([r.fsm EXCEPT !.lastSentAt = ts], TRUE, FALSE)

\* Mutant of DegradeTransition: the state != L0 guard of recovery is missing.
DegradeTransition_NoL0Guard(d, active, ts, opts, wall) ==
    IF active THEN handleDegradation(d, d.current, ts, opts, wall)
    ELSE handleRecovery(d, d.current, ts, opts, wall)

DegradeTransition(d, active, ts, opts, wall) ==
    IF active THEN handleDegradation(d, d.current, ts, opts, wall)
    ELSE IF ~active /\ d.current # AlertStateL0
         THEN handleRecovery(d, d.current, ts, opts, wall)
    ELSE Result(d, FALSE, FALSE)

\* ------------------------------------------------------------ Alert
\* NewFsm(typ) for the two supported type tags.
NewFsm(t, wall) ==
    IF t = AlertTypeBasic THEN NewPromAlertFsm ELSE NewDegradeFsm(wall)

\* Alert.Transition: the wrapped machine's Transition with the alert's options.
AlertTransition(t, m, active, ts, opts, wall) ==
    IF t = AlertTypeBasic THEN PromTransition(m, active, ts, opts, wall)
    ELSE DegradeTransition(m, active, ts, opts, wall)

\* ------------------------------------------------- Snapshot / Restore
\* A nil map.
NilMap == <<>>

\* PromAlertFsm.Snapshot
PromSnapshot(a) ==
    [State |-> a.current, ActiveAt |-> a.activeAt, FiredAt |-> a.firedAt,
     LastSentAt |-> a.lastSentAt, StateEnteredAt |-> NilMap]

\* PromAlertFsm.Restore: the receiver a with the snapshot's fields.
PromRestore(a, snap) ==
    [a EXCEPT !.activeAt = snap.ActiveAt, !.firedAt = snap.FiredAt,
              !.lastSentAt = snap.LastSentAt, !.current = snap.State]

\* DegradeFsm.Snapshot
DegradeSnapshot(d) ==
    [State |-> d.current, ActiveAt |-> ZeroTime, FiredAt |-> ZeroTime,
     LastSentAt |-> d.lastSentAt, StateEnteredAt |-> d.stateEnteredAt]

\* DegradeFsm.Restore: the receiver d with the snapshot's fields.
DegradeRestore(d, snap) ==
    [d EXCEPT !.stateEnteredAt = snap.StateEnteredAt,
              !.lastSentAt = snap.LastSentAt, !.current = snap.State]

FsmSnapshot(t, m) ==
    IF t = AlertTypeBasic THEN PromSnapshot(m) ELSE DegradeSnapshot(m)

FsmRestore(t, m, snap) ==
    IF t = AlertTypeBasic THEN PromRestore(m, snap) ELSE DegradeRestore(m, snap)

\* ------------------------------------------------- Marshal / Restore
\* float64 values: the zero value, a finite measurement, and a value that is
\* not a number (0/0 in a query result).
NaN == "NaN"

ZeroValue == "0"

Values == {ZeroValue, NaN}

\* json.Marshal of a float64: NaN and the infinities are unsupported values.
JsonFloatOK(v) == v # NaN

\* What Marshal returns when it fails, and what Unmarshal cannot parse.
NoData == [nil |-> TRUE]

\* The alert types NewFsm supports.
SupportedTypes == {AlertTypeBasic, AlertTypeMultiTier}

\* An Alert: {labels, typ, opt, Value, fsm}
MkAlert(lbs, t, o, v, m) ==
    [labels |-> lbs, typ |-> t, opt |-> o, Value |-> v, fsm |-> m]

\* Alert.Marshal: json.Marshal(alertPersisted{Labels, Value, Snapshot, Typ})
AlertMarshal(a) ==
    IF ~JsonFloatOK(a.Value) THEN [data |-> NoData, err |-> TRUE]
    ELSE [data |-> [labels |-> a.labels, value |-> a.Value,
                    machine |-> FsmSnapshot(a.typ, a.fsm), type |-> a.typ],
          err |-> FALSE]

\* Mutant of AlertRestore: the receiver keeps its own options.
AlertRestore_KeepOpt(a, data, o, wall) ==
    IF data = NoData THEN [alert |-> a, err |-> TRUE]
    ELSE IF data.type \notin SupportedTypes
    THEN [alert |-> [a EXCEPT !.labels = data.labels, !.Value = data.value,
                              !.typ = data.type],
          err |-> TRUE]
    ELSE [alert |-> MkAlert(data.labels, data.type, a.opt, data.value,
                            FsmRestore(data.type, NewFsm(data.type, wall),
                                       data.machine)),
          err |-> FALSE]

\* Alert.Restore(data, opt) on receiver a; wall is the time.Now() that
\* NewFsm reads.
AlertRestore(a, data, o, wall) ==
    IF data = NoData THEN [alert |-> a, err |-> TRUE]
    ELSE IF data.type \notin SupportedTypes
    THEN [alert |-> [a EXCEPT !.labels = data.labels, !.Value = data.value,
                              !.typ = data.type, !.opt = o],
          err |-> TRUE]
    ELSE [alert |-> MkAlert(data.labels, data.type, o, data.value,
                            FsmRestore(data.type, NewFsm(data.type, wall),
                                       data.machine)),
          err |-> FALSE]

\* ------------------------------------------------------------- Rule
\* labels.MetricName and labels.AlertName
MetricName == "__name__"

AlertName == "alertname"

\* Builder.Get: the value of a label, "" when the label is absent.
LGet(l, n) == IF n \in DOMAIN l THEN l[n] ELSE ""

\* Builder.Del
LDel(l, n) == [k \in DOMAIN l \ {n} |-> l[k]]

\* Builder.Set: an empty value removes the label.
LSet(l, n, v) ==
    IF v = "" THEN LDel(l, n)
    ELSE [k \in DOMAIN l \cup {n} |-> IF k = n THEN v ELSE l[k]]

\* Labels.Hash: the hash of the name/value pairs, taken free of collisions,
\* so that a fingerprint is known by the label set it was computed from.
Hash(l) == l

\* NewRule(name, expr, hold, keepFiring, resendDelay, lbs, ann): AlertType
\* and the two Degrade thresholds are left at their zero values.
NewRule(name, expr, hold, keepFiring, resendDelay, lbs) ==
    IF name = "" \/ expr = "" THEN [rule |-> NoData, err |-> TRUE]
    ELSE IF hold < 0 \/ keepFiring < 0 \/ resendDelay < 0
    THEN [rule |-> NoData, err |-> TRUE]
    ELSE [rule |-> [Name |-> name, AlertType |-> "",
                    AlertOpts |-> [HoldDuration |-> hold, KeepFiringFor |-> keepFiring,
                                   ResendDelay |-> resendDelay, RecoverDuration |-> 0,
                                   AutoRecoverAfter |-> 0],
                    Labels |-> lbs, active |-> <<>>],
          err |-> FALSE]

\* Builder.Labels: the labels that carry a value.
LBuild(l) == [k \in { x \in DOMAIN l : l[x] # "" } |-> l[k]]

\* Mutant of formatLabels: a rule label replaces the sample's label.
formatLabels_RuleOverrides(r, sampleLabels) ==
    LET filled ==
            [k \in DOMAIN sampleLabels \cup DOMAIN r.Labels |->
                IF k \in DOMAIN r.Labels THEN r.Labels[k] ELSE sampleLabels[k]]
    IN  LSet(LDel(LBuild(filled), MetricName), AlertName, r.Name)

\* Rule.formatLabels
formatLabels(r, sampleLabels) ==
    LET filled ==
            [k \in DOMAIN sampleLabels \cup DOMAIN r.Labels |->
                IF LGet(sampleLabels, k) = "" THEN LGet(r.Labels, k)
                ELSE sampleLabels[k]]
    IN  LSet(LDel(LBuild(filled), MetricName), AlertName, r.Name)

\* NewAlert: fails for a type NewFsm does not support.
NewAlert(t, lbs, o, wall) ==
    IF t \notin SupportedTypes THEN [alert |-> NoData, err |-> TRUE]
    ELSE [alert |-> MkAlert(lbs, t, o, ZeroValue, NewFsm(t, wall)), err |-> FALSE]

\* One Transition call of an Eval, as it took effect.
Call(fp, active, before, after, res) ==
    [fp |-> fp, active |-> active, pre |-> before, post |-> after,
     notify |-> res.notify, err |-> res.err]

\* What an Eval has done so far.
EvalAcc(act) ==
    [active |-> act, seen |-> {}, ret |-> <<>>, calls |-> <<>>, err |-> FALSE]

\* The alert stored under fp moves to alert a.
PutAlert(act, fp, a) == [k \in DOMAIN act \cup {fp} |-> IF k = fp THEN a ELSE act[k]]

\* Mutant of ActiveAlert: the entry of the active map is not looked up.
ActiveAlert_AlwaysNew(act, fp, made) == made.alert

\* alert, exists := r.active[fp]; a new alert when there is no entry.
ActiveAlert(act, fp, made) == IF fp \in DOMAIN act THEN act[fp] ELSE made.alert

\* Mutant of AfterSample: a failed Transition ends the Eval with the error.
AfterSample_AbortOnError(acc, fp, alert, F, res) ==
    [acc EXCEPT
        !.seen = @ \cup {fp},
        !.active = PutAlert(@, fp, [alert EXCEPT !.Value = F, !.fsm = res.fsm]),
        !.calls = Append(@, Call(fp, TRUE, alert,
                                 [alert EXCEPT !.Value = F, !.fsm = res.fsm], res)),
        !.ret = IF res.err THEN <<>> ELSE IF res.notify THEN Append(@, fp) ELSE @,
        !.err = res.err]

\* Rule.Eval, one sample: the bookkeeping after alert.Transition(ctx, true,
\* ts) returned res for the alert of fingerprint fp.
AfterSample(acc, fp, alert, F, res) ==
    [acc EXCEPT
        !.seen = @ \cup {fp},
        !.active = PutAlert(@, fp, [alert EXCEPT !.Value = F, !.fsm = res.fsm]),
        !.calls = Append(@, Call(fp, TRUE, alert,
                                 [alert EXCEPT !.Value = F, !.fsm = res.fsm], res)),
        !.ret = IF ~res.err /\ res.notify THEN Append(@, fp) ELSE @]

\* Rule.Eval, one sample: alert.SetValue(sample.F) and
\* alert.Transition(ctx, true, ts).
OnSample(acc, fp, alert, F, ts, wall) ==
    AfterSample(acc, fp, alert, F,
                AlertTransition(alert.typ, alert.fsm, TRUE, ts, alert.opt, wall))

\* Rule.Eval, one sample: the alert of the fingerprint is looked up, or
\* made; a failing newAlert ends the Eval with the error and no alerts.
LookupSample(acc, fp, made, F, ts, wall) ==
    IF fp \notin DOMAIN acc.active /\ made.err
    THEN [acc EXCEPT !.seen = @ \cup {fp}, !.ret = <<>>, !.err = TRUE]
    ELSE OnSample(acc, fp, ActiveAlert(acc.active, fp, made), F, ts, wall)

\* Rule.Eval, one sample with the labels lbs that formatLabels gave it.
SampleStep(r, acc, lbs, F, ts, wall) ==
    LookupSample(acc, Hash(lbs), NewAlert(r.AlertType, lbs, r.AlertOpts, wall),
                 F, ts, wall)

\* Rule.Eval, the loop over the samples of the vector from sample i on.
RECURSIVE EvalSamples(_, _, _, _, _, _)
EvalSamples(r, vector, i, ts, wall, acc) ==
    IF i > Len(vector) \/ acc.err THEN acc
    ELSE EvalSamples(r, vector, i + 1, ts, wall,
                     SampleStep(r, acc, formatLabels(r, vector[i].Metric),
                                vector[i].F, ts, wall))

\* Rule.Eval, one absent alert: the bookkeeping after
\* alert.Transition(ctx, false, ts) returned res.
AfterAbsent(acc, fp, alert, res) ==
    [acc EXCEPT
        !.calls = Append(@, Call(fp, FALSE, alert, [alert EXCEPT !.fsm = res.fsm], res)),
        !.active =
            IF res.notify
            THEN [k \in DOMAIN @ \ {fp} |-> @[k]]
            ELSE PutAlert(@, fp, [alert EXCEPT !.fsm = res.fsm]),
        !.ret = IF res.notify THEN Append(@, fp) ELSE @]

\* Rule.Eval, one absent alert: alert.Transition(ctx, false, ts).
OnAbsent(acc, fp, alert, ts, wall) ==
    AfterAbsent(acc, fp, alert,
                AlertTransition(alert.typ, alert.fsm, FALSE, ts, alert.opt, wall))

\* Rule.Eval, the loop over the active map for the fingerprints not seen, in
\* the order ord the map iteration yields them; it is not reached when the
\* loop over the samples ended with an error.
RECURSIVE EvalAbsent(_, _, _, _, _)
EvalAbsent(ord, i, ts, wall, acc) ==
    IF i > Len(ord) \/ acc.err THEN acc
    ELSE IF ord[i] \notin DOMAIN acc.active \/ ord[i] \in acc.seen
    THEN EvalAbsent(ord, i + 1, ts, wall, acc)
    ELSE EvalAbsent(ord, i + 1, ts, wall,
                    OnAbsent(acc, ord[i], acc.active[ord[i]], ts, wall))

\* Mutant of RuleEval: the query error is dropped and the empty vector is
\* evaluated.
RuleEval_IgnoreQueryError(r, q, ts, wall, ord) ==
    EvalAbsent(ord, 1, ts, wall, EvalSamples(r, q.vector, 1, ts, wall, EvalAcc(r.active)))

\* Rule.Eval with a query that returned q = (vector, err).
RuleEval(r, q, ts, wall, ord) ==
    IF q.err THEN [EvalAcc(r.active) EXCEPT !.err = TRUE]
    ELSE EvalAbsent(ord, 1, ts, wall,
                    EvalSamples(r, q.vector, 1, ts, wall, EvalAcc(r.active)))

\* ---------------------------------------------------- Storage, AlertManager
\* The fingerprints of ord that have an entry in the rule's active map, in
\* the order the map iteration yields them.
ActiveList(r, ord) == SelectSeq(ord, LAMBDA fp : fp \in DOMAIN r.active)

\* Storage.SaveAlerts(r, alerts): every alert is marshalled, then the list
\* replaces what is stored under the rule's name; ioErr is a failing write.
SaveAlerts(store, r, ord, ioErr) ==
    LET fps == ActiveList(r, ord)
        raw == [i \in DOMAIN fps |-> AlertMarshal(r.active[fps[i]])]
    IN  IF ioErr \/ \E i \in DOMAIN raw : raw[i].err
        THEN [store |-> store, err |-> TRUE]
        ELSE [store |-> MapSet(store, r.Name, [i \in DOMAIN raw |-> raw[i].data]),
              err |-> FALSE]

\* Storage.LoadAlerts(r): nothing stored under the name is no alerts and no
\* error; ioErr is a failing read.
LoadAlerts(store, r, ioErr, wall) ==
    IF ioErr THEN [alerts |-> <<>>, err |-> TRUE]
    ELSE IF r.Name \notin DOMAIN store THEN [alerts |-> <<>>, err |-> FALSE]
    ELSE
        LET raw == store[r.Name]
            made == NewAlert(r.AlertType, <<>>, r.AlertOpts, wall)
            got == [i \in DOMAIN raw |->
                       IF made.err THEN [alert |-> NoData, err |-> TRUE]
                       ELSE AlertRestore(made.alert, raw[i], r.AlertOpts, wall)]
        IN  IF \E i \in DOMAIN got : got[i].err
            THEN [alerts |-> <<>>, err |-> TRUE]
            ELSE [alerts |-> [i \in DOMAIN got |-> got[i].alert], err |-> FALSE]

\* rule.active rebuilt from the loaded alerts, keyed by the hash of their
\* labels; a later alert replaces an earlier one with the same hash.
ActiveFrom(alerts) ==
    LET fps == { Hash(alerts[i].labels) : i \in DOMAIN alerts }
    IN  [fp \in fps |->
            alerts[CHOOSE i \in DOMAIN alerts :
                       /\ Hash(alerts[i].labels) = fp
                       /\ \A j \in DOMAIN alerts : Hash(alerts[j].labels) = fp => j <= i]]

\* AlertManager.restoreAlerts from rule i on; the load of rule failAt fails.
RECURSIVE restoreAlerts(_, _, _, _, _)
restoreAlerts(rs, store, i, failAt, wall) ==
    IF i > Len(rs) THEN [rules |-> rs, err |-> FALSE]
    ELSE
        LET l == LoadAlerts(store, rs[i], failAt = i, wall)
        IN  IF l.err THEN [rules |-> rs, err |-> TRUE]
            ELSE restoreAlerts([rs EXCEPT ![i].active = ActiveFrom(l.alerts)],
                               store, i + 1, failAt, wall)

\* AlertManager.saveAlerts from rule i on; the write for rule failAt fails.
RECURSIVE saveAlerts(_, _, _, _, _)
saveAlerts(rs, store, i, failAt, ords) ==
    IF i > Len(rs) THEN [store |-> store, err |-> FALSE]
    ELSE
        LET sv == SaveAlerts(store, rs[i], ords[i], failAt = i)
        IN  IF sv.err THEN [store |-> sv.store, err |-> TRUE]
            ELSE saveAlerts(rs, sv.store, i + 1, failAt, ords)

\* What the caller of Stop gets: Stop has no result and returns normally
\* whether or not saveAlerts failed (the error is logged).
StopResult(saveErr) == "returned"

\* The alert behind the entry fp of the list an Eval returned, as the last
\* Transition call of that Eval left it (the list holds the Alert itself).
ReturnedAlert(e, fp) ==
    e.calls[CHOOSE i \in DOMAIN e.calls :
                /\ e.calls[i].fp = fp
                /\ \A j \in DOMAIN e.calls : e.calls[j].fp = fp => j <= i].post

\* The end timestamp NewNotification gives a snapshot at wall-clock wall.
EndsAt(snap, wall) ==
    IF snap.State = AlertStateInactive /\ snap.FiredAt # ZeroTime
    THEN wall ELSE ZeroTime

\* The Notification of rule name for an alert with snapshot snap.
Notification(name, alert, snap, wall) ==
    [Rule |-> name, Status |-> snap.State, Labels |-> alert.labels,
     StartsAt |-> snap.FiredAt, Value |-> alert.Value,
     EndsAt |-> EndsAt(snap, wall)]

\* NewNotification(r, alert)
NewNotification(r, alert, wall) ==
    Notification(r.Name, alert, FsmSnapshot(alert.typ, alert.fsm), wall)

\* Mutant of Delivery: the notifier is called with an empty batch too.
Delivery_AlwaysCall(r, e, nerr, wall) ==
    IF e.err THEN [called |-> FALSE, batch |-> <<>>, err |-> FALSE]
    ELSE [called |-> TRUE,
          batch |-> [i \in DOMAIN e.ret |->
                        NewNotification(r, ReturnedAlert(e, e.ret[i]), wall)],
          err |-> nerr]

\* evaluateAllRules, the goroutine of rule r after Eval returned e: one
\* Notification per returned alert, handed to the notifier in one call
\* that returns nerr; no call for an error or an empty list.
Delivery(r, e, nerr, wall) ==
    IF e.err \/ Len(e.ret) = 0 THEN [called |-> FALSE, batch |-> <<>>, err |-> FALSE]
    ELSE [called |-> TRUE,
          batch |-> [i \in DOMAIN e.ret |->
                        NewNotification(r, ReturnedAlert(e, e.ret[i]), wall)],
          err |-> nerr]

\* Mutant of Committed: a failed delivery undoes the evaluation.
Committed_Rollback(r, e, d) == IF d.err THEN r.active ELSE e.active

\* The active set of rule r after its goroutine evaluated (e) and
\* delivered (d): the error of the notifier is logged and nothing else.
Committed(r, e, d) == e.active

\* Mutant of Remaining: a failed Eval cancels the goroutines of the tick.
Remaining_CancelOnError(ws, w, e) == IF e.err THEN {} ELSE ws \ {w}

\* The goroutines still to run after goroutine w ended with e.
Remaining(ws, w, e) == ws \ {w}

\* Mutant of Started: the loop is started whatever restoreAlerts returned.
LoopAfterRun_Always(err) == "running"

\* AlertManager.Run: the loop goroutine is started only after restoreAlerts
\* returned without error.
LoopAfterRun(err) == IF err THEN "failed" ELSE "running"

\* ------------------------------------------------------------ state
VARIABLES
    now,      \* the wall clock, time.Now()
    typ,      \* Alert.typ
    opt,      \* Alert.opt
    fsm,      \* Alert.fsm: the fields of the wrapped PromAlertFsm / DegradeFsm
    entered,  \* history: ts argument and wall clock of the call that entered
              \* the current state (for a fresh machine: its construction)
    last,     \* history: the most recent Transition call and what it returned
    labels,   \* Alert.labels
    Value,    \* Alert.Value
    saved,    \* history: the most recent Marshal + Restore of the alert
    rule,     \* a Rule: Name, AlertType, AlertOpts, Labels, active
    evalLog,  \* history: the most recent Eval of the rule
    rules,    \* AlertManager.rules
    loop,     \* the loop goroutine: created, running, exited, failed (Run erred)
    stop,     \* AlertManager.stop and the progress of the Stop call
    wg,       \* AlertManager.wg
    workers,  \* the per-tick goroutines that have not evaluated yet
    lastTick, \* the instant of the last ticker event handled
    storage,  \* AlertManager.storage: rule name -> marshalled alerts
    applied,  \* history: per rule and alert, the ts of its last Transition
    mlog,     \* history: the most recent step of the manager
    restored, \* a second manager run on the same storage after Stop
    mtx,      \* AlertManager.mtx: its writer, its readers, the readers blocked
    shot,     \* machines, snapshots taken of them and machines restored from those
    cw        \* a CounterWindow and the call that is in progress on it

vars == <<now, typ, opt, fsm, entered, last>>

\* The part of an Alert that only SetValue, Marshal and Restore touch.
pvars == <<labels, Value, saved>>

\* A Rule and the record of its last evaluation.
rvars == <<rule, evalLog>>

\* An AlertManager, its storage and the manager restarted after it.
mvars ==
    <<rules, loop, stop, wg, workers, lastTick, storage, applied, mlog, restored, mtx>>

\* Values of the packages used on their own: fsm snapshots, common.
ovars == <<shot, cw>>

\* Options of one alert.  A Basic machine never reads the two Degrade
\* thresholds and a Degrade machine never reads KeepFiringFor; those are
\* left at 0, as NewRule leaves unset fields.
OptsFor(t) ==
    { o \in AlertOpts :
        IF t = AlertTypeBasic
        THEN o.RecoverDuration = 0 /\ o.AutoRecoverAfter = 0
        ELSE o.KeepFiringFor = 0 }

NoCall(m) ==
    [op |-> "none", active |-> FALSE, ts |-> ZeroTime,
     pre |-> m, since |-> [ts |-> ZeroTime, wall |-> ZeroTime],
     notify |-> FALSE, err |-> FALSE]

\* NewAlert(typ, lbs, opt) at some wall-clock instant.
Init ==
    /\ now \in Times
    /\ typ \in {AlertTypeBasic, AlertTypeMultiTier}
    /\ opt \in OptsFor(typ)
    /\ fsm = NewFsm(typ, now)
    /\ entered = [ts |-> ZeroTime, wall |-> now]
    /\ last = NoCall(fsm)

\* The wall clock advances between calls.
Tick ==
    /\ now < MaxTime
    /\ now' = now + 1
    /\ last' = NoCall(fsm)
    /\ UNCHANGED <<typ, opt, fsm, entered>>

\* alert.Transition(ctx, active, ts)
Transition(active, ts) ==
    LET r == AlertTransition(typ, fsm, active, ts, opt, now)
    IN  /\ fsm' = r.fsm
        /\ entered' = IF r.fsm.current # fsm.current
                      THEN [ts |-> ts, wall |-> now] ELSE entered
        /\ last' = [op |-> "transition", active |-> active, ts |-> ts,
                    pre |-> fsm, since |-> entered,
                    notify |-> r.notify, err |-> r.err]
        /\ UNCHANGED <<now, typ, opt>>

TransitionActive == \E ts \in Times : Transition(TRUE, ts)

TransitionInactive == \E ts \in Times : Transition(FALSE, ts)

Next == Tick \/ TransitionActive \/ TransitionInactive

\* No Marshal + Restore has happened.
NoSave ==
    [op |-> "none", fresh |-> FALSE, orig |-> NoData, data |-> NoData,
     merr |-> FALSE, rerr |-> FALSE, was |-> NoData, opts |-> NoData]

\* An alert without labels and value that is never marshalled.
PersistIdle == labels = <<>> /\ Value = ZeroValue /\ saved = NoSave

\* A single alert that is only transitioned: nothing else of the program moves.
Frozen == UNCHANGED <<pvars, rvars, mvars, ovars>>

\* A rule without alerts that is never evaluated.
NoRule ==
    [Name |-> "", AlertType |-> "", AlertOpts |-> NoData, Labels |-> <<>>,
     active |-> <<>>]

\* No Eval has happened.
NoEval ==
    [op |-> "none", qerr |-> FALSE, vector |-> <<>>, ts |-> ZeroTime, pre |-> <<>>,
     seen |-> {}, ret |-> <<>>, calls |-> <<>>, err |-> FALSE]

RuleIdle == rule = NoRule /\ evalLog = NoEval

\* The Stop call: not made.
NoStop == [closed |-> FALSE, pc |-> "idle", saveErr |-> FALSE, result |-> "none"]

\* No step of the manager to record.
NoStep ==
    [op |-> "none", rule |-> 0, ts |-> ZeroTime, prev |-> <<>>, touched |-> {},
     err |-> FALSE, qerr |-> FALSE, pre |-> <<>>, post |-> <<>>, ret |-> <<>>,
     calls |-> <<>>, called |-> FALSE, batch |-> <<>>, nerr |-> FALSE,
     others |-> {}, name |-> "", list |-> <<>>, store |-> <<>>]

\* am.mtx: nobody holds it and nobody waits for it.
NoLock == [w |-> NoData, r |-> {}, rwait |-> {}]

\* No machine is snapshotted and no CounterWindow is made.
OtherIdle == shot = NoData /\ cw = NoData

\* A manager without rules that is never run.
NoManager ==
    /\ rules = <<>> /\ loop = "created" /\ stop = NoStop /\ wg = 0
    /\ workers = {} /\ lastTick = ZeroTime /\ storage = <<>>
    /\ applied = <<>> /\ mlog = NoStep /\ restored = NoData
    /\ mtx = NoLock

MgrIdle == NoManager /\ OtherIdle

AlertInit == Init /\ PersistIdle /\ RuleIdle /\ MgrIdle

AlertTick == Tick /\ Frozen

AlertTransitionActive == TransitionActive /\ Frozen

AlertTransitionInactive == TransitionInactive /\ Frozen

AlertNext == AlertTick \/ AlertTransitionActive \/ AlertTransitionInactive

Spec == AlertInit /\ [][AlertNext]_<<vars, pvars, rvars, mvars, ovars>>

TypeOK ==
    /\ now \in Times
    /\ typ \in {AlertTypeBasic, AlertTypeMultiTier}
    /\ opt \in AlertOpts
    /\ fsm.lastSentAt \in {ZeroTime} \cup Times
    /\ last.op \in {"none", "transition"}

\* ------------------------------------------- Alert: SetValue, Marshal, Restore
\* Label sets of an alert.
LabelSets == { [k \in {"instance"} |-> "a"] }

\* Thresholds a rule is retuned between: immediate (no hold, no recovery
\* wait) and held (hold, resend and recovery wait of one time unit).
RetuneOpts(t) ==
    { o \in OptsFor(t) :
        /\ o.HoldDuration <= 1
        /\ o.ResendDelay = o.HoldDuration
        /\ o.KeepFiringFor = 0
        /\ o.AutoRecoverAfter = 0
        /\ o.RecoverDuration = IF t = AlertTypeMultiTier THEN o.HoldDuration ELSE 0 }

\* &Alert{}: the receiver Restore is called on.
EmptyAlert == MkAlert(<<>>, "", NoData, ZeroValue, NoData)

ThisAlert == MkAlert(labels, typ, opt, Value, fsm)

\* The snapshot and the bytes of a Marshal + Restore are dropped from the
\* history once the alert moves on, the options of Marshal time one step
\* later.
Forget ==
    saved' = [saved EXCEPT !.fresh = FALSE, !.orig = NoData, !.data = NoData,
                           !.was = IF saved.fresh THEN @ ELSE NoData]

InitPersist ==
    /\ now \in Times
    /\ typ \in SupportedTypes
    /\ opt \in RetuneOpts(typ)
    /\ fsm = NewFsm(typ, now)
    /\ entered = [ts |-> ZeroTime, wall |-> now]
    /\ last = NoCall(fsm)
    /\ labels \in LabelSets
    /\ Value = ZeroValue
    /\ saved = NoSave
    /\ RuleIdle
    /\ MgrIdle

\* alert.SetValue(v)
SetValue ==
    \E v \in Values :
        /\ Value' = v
        /\ last' = NoCall(fsm)
        /\ Forget
        /\ UNCHANGED <<now, typ, opt, fsm, entered, labels, rvars, mvars, ovars>>

\* data, err := alert.Marshal(); b := &Alert{}; b.Restore(data, o)
\* and the program goes on with b (as after a restart with options o).
Persist ==
    \E o \in RetuneOpts(typ) :
        LET m == AlertMarshal(ThisAlert)
            r == AlertRestore(EmptyAlert, m.data, o, now)
            b == IF r.err THEN ThisAlert ELSE r.alert
        IN  /\ saved' = [op |-> "persist", fresh |-> TRUE, orig |-> ThisAlert,
                         data |-> m.data, merr |-> m.err, rerr |-> r.err,
                         was |-> opt, opts |-> o]
            /\ labels' = b.labels
            /\ typ' = b.typ
            /\ opt' = b.opt
            /\ Value' = b.Value
            /\ fsm' = b.fsm
            /\ last' = NoCall(b.fsm)
            /\ UNCHANGED <<now, entered, rvars, mvars, ovars>>

PersistTick == Tick /\ Forget /\ UNCHANGED <<labels, Value, rvars, mvars, ovars>>

PersistTransition ==
    /\ TransitionActive \/ TransitionInactive
    /\ Forget
    /\ UNCHANGED <<labels, Value, rvars, mvars, ovars>>

NextPersist == PersistTick \/ PersistTransition \/ SetValue \/ Persist

SpecPersist == InitPersist /\ [][NextPersist]_<<vars, pvars, rvars, mvars, ovars>>

\* ----------------------------------------------------------------- Rule.Eval
\* Alert types a Rule can carry: NewRule leaves AlertType at its zero value.
RuleTypes == SupportedTypes \cup {""}

\* Thresholds of the evaluated rule.
RuleOpts(t) ==
    { o \in AlertOpts :
        /\ o.HoldDuration <= 1
        /\ o.ResendDelay = 0
        /\ o.AutoRecoverAfter = 0
        /\ o.KeepFiringFor <= (IF t = AlertTypeBasic THEN 1 ELSE 0)
        /\ o.RecoverDuration <= (IF t = AlertTypeMultiTier THEN 1 ELSE 0)
        /\ t \notin SupportedTypes => o.HoldDuration = 0 }

\* The series the query can return: two of them differ only in a label the
\* rule fills in.
Metrics ==
    << (MetricName :> "up"),
       (MetricName :> "up") @@ ("instance" :> "a"),
       ("instance" :> "b") >>

\* Values of the samples.
SampleValues == {"1.5"}

\* Vectors: any of the series, in that order, each with a value.
RECURSIVE VectorsFrom(_)
VectorsFrom(i) ==
    IF i > Len(Metrics) THEN {<<>>}
    ELSE LET rest == VectorsFrom(i + 1)
         IN  rest \cup { <<[Metric |-> Metrics[i], F |-> v]>> \o w : v \in SampleValues, w \in rest }

Vectors == VectorsFrom(1)

\* Fingerprints of the rule's alerts and the orders a map iteration can
\* visit them in.
Fingerprints(r) == { Hash(formatLabels(r, Metrics[i])) : i \in 1..Len(Metrics) }

Orders(r) ==
    { o \in [1..Cardinality(Fingerprints(r)) -> Fingerprints(r)] :
        \A i, j \in DOMAIN o : i # j => o[i] # o[j] }

InitRule ==
    /\ now \in Times
    /\ \E t \in RuleTypes : \E o \in RuleOpts(t) :
           rule = [Name |-> "R", AlertType |-> t, AlertOpts |-> o,
                   Labels |-> ("instance" :> "a"), active |-> <<>>]
    /\ evalLog = NoEval
    /\ typ = AlertTypeBasic
    /\ opt \in RetuneOpts(typ) /\ opt.HoldDuration = 0
    /\ fsm = NewFsm(typ, ZeroTime)
    /\ entered = [ts |-> ZeroTime, wall |-> ZeroTime]
    /\ last = NoCall(fsm)
    /\ PersistIdle
    /\ MgrIdle

RuleTick ==
    /\ now < MaxTime
    /\ now' = now + 1
    /\ evalLog' = NoEval
    /\ UNCHANGED <<rule, typ, opt, fsm, entered, last, pvars, mvars, ovars>>

\* The rule after an Eval that did e, and the record of it.
Evaluated(q, ts, e) ==
    /\ rule' = [rule EXCEPT !.active = e.active]
    /\ evalLog' = [op |-> "eval", qerr |-> q.err, vector |-> q.vector, ts |-> ts,
                   pre |-> rule.active, seen |-> e.seen, ret |-> e.ret,
                   calls |-> e.calls, err |-> e.err]
    /\ UNCHANGED <<now, typ, opt, fsm, entered, last, pvars, mvars, ovars>>

\* r.Eval(ctx, ts, query) with the query returning q.
Eval(q, ts) ==
    \E ord \in Orders(rule) : Evaluated(q, ts, RuleEval(rule, q, ts, now, ord))

\* Evaluation timestamps: the instant read from the clock for the tick.
EvalTimes == {now}

EvalVector ==
    \E v \in Vectors, ts \in EvalTimes : Eval([vector |-> v, err |-> FALSE], ts)

EvalQueryError == \E ts \in EvalTimes : Eval([vector |-> <<>>, err |-> TRUE], ts)

NextRule == RuleTick \/ EvalVector \/ EvalQueryError

SpecRule == InitRule /\ [][NextRule]_<<vars, pvars, rvars, mvars, ovars>>

\* ------------------------------------------- Rule.Eval of restored alerts
\* The State field of a stored snapshot: a state of the machine, or the
\* zero value that a stored record without the field unmarshals to.
StoredStates(t) ==
    IF t = AlertTypeBasic THEN {AlertStateFiring, ""} ELSE {AlertStateL1, ""}

\* A stored alert of rule r for series i, as Marshal lays it out; a Degrade
\* machine's snapshot carries the map of entry instants that NewDegradeFsm
\* made at instant 1.
StoredAlert(r, i, st) ==
    [labels |-> formatLabels(r, Metrics[i]), value |-> ZeroValue,
     machine |-> [State |-> st, ActiveAt |-> ZeroTime, FiredAt |-> ZeroTime,
                  LastSentAt |-> ZeroTime,
                  StateEnteredAt |-> IF r.AlertType = AlertTypeBasic THEN NilMap
                                     ELSE (AlertStateL0 :> 1)],
     type |-> r.AlertType]

\* What the storage can hold for rule r: an alert for the first series, one
\* for the third, both, or none.
StoredLists(r) ==
    LET one(i) == { <<StoredAlert(r, i, st)>> : st \in StoredStates(r.AlertType) }
    IN  {<<>>} \cup one(1) \cup one(3) \cup { a \o b : a \in one(1), b \in one(3) }

\* A rule after restoreAlerts: its active map is rebuilt from the storage.
InitRestored ==
    /\ now \in Times
    /\ \E t \in SupportedTypes : \E o \in RuleOpts(t) :
           LET r == [Name |-> "R", AlertType |-> t, AlertOpts |-> o,
                     Labels |-> ("instance" :> "a"), active |-> <<>>]
           IN  \E l \in StoredLists(r) :
                   rule = restoreAlerts(<<r>>, ("R" :> l), 1, 0, now).rules[1]
    /\ evalLog = NoEval
    /\ typ = AlertTypeBasic
    /\ opt \in RetuneOpts(typ) /\ opt.HoldDuration = 0
    /\ fsm = NewFsm(typ, ZeroTime)
    /\ entered = [ts |-> ZeroTime, wall |-> ZeroTime]
    /\ last = NoCall(fsm)
    /\ PersistIdle
    /\ MgrIdle

SpecRestored == InitRestored /\ [][NextRule]_<<vars, pvars, rvars, mvars, ovars>>

\* ------------------------------------------------------ Rule.formatLabels
\* Label names of samples and rules: the metric name, the alert name and
\* two ordinary labels.
LabelNames == {MetricName, AlertName, "instance", "job"}

\* Label sets over the given values; "" is a label without a value.
LabelsOver(vals) ==
    UNION { [ns -> vals] : ns \in SUBSET LabelNames }

SampleLabelSets == LabelsOver({"", "s"})

RuleLabelSets == LabelsOver({"", "r"})

\* A rule with its labels, and no sample formatted yet.
InitLabels ==
    /\ now = 1
    /\ \E n \in {"R", "S"}, l \in RuleLabelSets :
           rule = [Name |-> n, AlertType |-> AlertTypeBasic,
                   AlertOpts |-> CHOOSE o \in RuleOpts(AlertTypeBasic) :
                                     o.HoldDuration = 0 /\ o.KeepFiringFor = 0,
                   Labels |-> l, active |-> <<>>]
    /\ evalLog = NoEval
    /\ typ = AlertTypeBasic
    /\ opt \in RetuneOpts(typ) /\ opt.HoldDuration = 0
    /\ fsm = NewFsm(typ, ZeroTime)
    /\ entered = [ts |-> ZeroTime, wall |-> ZeroTime]
    /\ last = NoCall(fsm)
    /\ PersistIdle
    /\ MgrIdle

\* lbs := r.formatLabels(sample.Metric) for one sample of a vector; lbs
\* become the labels of the sample's alert.
FormatSample ==
    \E m \in SampleLabelSets :
        /\ labels' = formatLabels(rule, m)
        /\ evalLog' = [NoEval EXCEPT !.op = "format",
                                     !.vector = <<[Metric |-> m, F |-> "1.5"]>>]
        /\ UNCHANGED <<vars, Value, saved, rule, mvars, ovars>>

NextLabels == FormatSample

SpecLabels == InitLabels /\ [][NextLabels]_<<vars, pvars, rvars, mvars, ovars>>

\* ------------------------------------------------------------- AlertManager
\* Goroutines of evaluateAllRules that may be waiting to evaluate at once.
MaxInFlight == 2

\* Thresholds of the manager's rules: fire at once, never resend.
MgrOpts ==
    [HoldDuration |-> 0, KeepFiringFor |-> 0, ResendDelay |-> 0,
     RecoverDuration |-> 0, AutoRecoverAfter |-> 0]

MgrRule(name, lbs) ==
    [Name |-> name, AlertType |-> AlertTypeBasic, AlertOpts |-> MgrOpts,
     Labels |-> lbs, active |-> <<>>]

\* The rule lists NewAlertManager is given: one rule, two rules, and two
\* rules of one name (NewAlertManager takes the list as it is).
RuleLists ==
    { <<MgrRule("r1", ("instance" :> "a"))>>,
      <<MgrRule("r1", ("instance" :> "a")), MgrRule("r2", ("instance" :> "b"))>>,
      <<MgrRule("r1", ("instance" :> "a")), MgrRule("r1", ("instance" :> "b"))>> }

\* What the query returns to a worker: an error, nothing, or two series.
MgrQueries ==
    { [vector |-> <<>>, err |-> TRUE], [vector |-> <<>>, err |-> FALSE],
      [vector |-> <<[Metric |-> Metrics[1], F |-> "1.5"],
                    [Metric |-> Metrics[3], F |-> "1.5"]>>, err |-> FALSE] }

\* A map-iteration order for every rule of the list.
OrdersOf(rs) == { o \in [DOMAIN rs -> UNION { Orders(rs[i]) : i \in DOMAIN rs }] :
                    \A i \in DOMAIN rs : o[i] \in Orders(rs[i]) }

\* NewAlertManager(rules, interval, queryFn, notifier, storage)
InitMgr ==
    /\ now \in Times
    /\ rules \in RuleLists
    /\ loop = "created"
    /\ stop = NoStop
    /\ wg = 0
    /\ workers = {}
    /\ lastTick = ZeroTime
    /\ storage = <<>>
    /\ applied = [i \in DOMAIN rules |-> <<>>]
    /\ mlog = NoStep
    /\ restored = NoData
    /\ mtx = NoLock
    /\ OtherIdle
    /\ typ = AlertTypeBasic
    /\ opt = MgrOpts
    /\ fsm = NewFsm(typ, ZeroTime)
    /\ entered = [ts |-> ZeroTime, wall |-> ZeroTime]
    /\ last = NoCall(fsm)
    /\ PersistIdle
    /\ RuleIdle

MgrFrozen == UNCHANGED <<typ, opt, fsm, entered, last, pvars, rvars, mtx, ovars>>

MgrClock ==
    /\ now < MaxTime
    /\ now' = now + 1
    /\ mlog' = NoStep
    /\ UNCHANGED <<rules, loop, stop, wg, workers, lastTick, storage, applied, restored>>
    /\ MgrFrozen

\* AlertManager.Run after restoreAlerts returned r.
Started(r) ==
    /\ rules' = r.rules
    /\ loop' = LoopAfterRun(r.err)
    /\ wg' = IF r.err THEN wg ELSE wg + 1
    /\ mlog' = [NoStep EXCEPT !.op = "run", !.err = r.err]

\* AlertManager.Run: restoreAlerts, then the loop goroutine is started; a
\* failing load makes Run return the error without starting it.  Run is
\* not called while a loop is running or a Stop call is waiting.
Run ==
    /\ loop # "running"
    /\ stop.pc # "waiting"
    /\ \E failAt \in 0..Len(rules) :
           /\ Started(restoreAlerts(rules, storage, 1, failAt, now))
           /\ applied' = [i \in DOMAIN rules |->
                             IF failAt = 0 \/ i < failAt THEN <<>> ELSE applied[i]]
    /\ UNCHANGED <<now, stop, workers, lastTick, storage, restored>>
    /\ MgrFrozen

\* loop: the select takes the ticker event (also when stop is closed as
\* well); evaluateAllRules starts one goroutine per rule with ts = time.Now().
TickerFires ==
    /\ loop = "running"
    /\ lastTick < now
    /\ Cardinality(workers) + Len(rules) <= MaxInFlight
    /\ workers' = workers \cup { [rule |-> i, ts |-> now] : i \in DOMAIN rules }
    /\ wg' = wg + Len(rules)
    /\ lastTick' = now
    /\ mlog' = [NoStep EXCEPT !.op = "tick", !.ts = now]
    /\ UNCHANGED <<now, rules, loop, stop, storage, applied, restored>>
    /\ MgrFrozen

\* The fingerprints whose alerts an Eval that did e called Transition on.
Touched(e) == { e.calls[i].fp : i \in DOMAIN e.calls }

\* The record of goroutine w: its Eval did e on a rule whose active set was
\* pre, the query returned q, and the delivery did d.
EvalStep(w, q, pre, e, d) ==
    [NoStep EXCEPT !.op = "eval", !.rule = w.rule, !.ts = w.ts,
                   !.prev = applied[w.rule], !.touched = Touched(e),
                   !.err = e.err, !.qerr = q.err, !.pre = pre, !.post = e.active,
                   !.ret = e.ret, !.calls = e.calls, !.called = d.called,
                   !.batch = d.batch, !.nerr = d.err, !.others = workers \ {w}]

\* The rule of worker w after its Eval did e and the delivery did d.
WorkerDone(w, e, d) ==
    /\ rules' = [rules EXCEPT ![w.rule].active = Committed(rules[w.rule], e, d)]
    /\ applied' =
           [applied EXCEPT ![w.rule] =
               [fp \in (DOMAIN @ \cup Touched(e)) \cap DOMAIN e.active |->
                   IF fp \in Touched(e) THEN w.ts ELSE @[fp]]]
    /\ workers' = Remaining(workers, w, e)
    /\ wg' = wg - 1

\* What Notifier.Notify can return (true: an error) after an Eval that
\* did e; it is only called with a batch.
NotifyResults(e) == IF e.err \/ Len(e.ret) = 0 THEN {FALSE} ELSE BOOLEAN

\* The goroutine w with the query result q: Eval did e.
WorkerNotify(w, q, e) ==
    \E nerr \in NotifyResults(e) :
        /\ WorkerDone(w, e, Delivery(rules[w.rule], e, nerr, now))
        /\ mlog' = EvalStep(w, q, rules[w.rule].active, e,
                            Delivery(rules[w.rule], e, nerr, now))

\* The orders a map iteration can visit the alerts of an active map in.
MapOrders(act) ==
    { o \in [1..Cardinality(DOMAIN act) -> DOMAIN act] :
        \A i, j \in DOMAIN o : i # j => o[i] # o[j] }

\* A goroutine of evaluateAllRules: r.Eval(ctx, ts, queryFn) with the ts
\* of its tick, the notification of what Eval returned, wg.Done().
WorkerEvalOf(queries) ==
    \E w \in { x \in workers : x.rule \in DOMAIN rules }, q \in queries :
        \E ord \in MapOrders(rules[w.rule].active) :
            /\ WorkerNotify(w, q, RuleEval(rules[w.rule], q, w.ts, now, ord))
            /\ UNCHANGED <<now, loop, stop, lastTick, storage, restored>>
            /\ MgrFrozen

WorkerEval == WorkerEvalOf(MgrQueries)

\* loop: the select takes the closed stop channel; the deferred wg.Done().
LoopExit ==
    /\ loop = "running"
    /\ stop.closed
    /\ loop' = "exited"
    /\ wg' = wg - 1
    /\ mlog' = NoStep
    /\ UNCHANGED <<now, rules, stop, workers, lastTick, storage, applied, restored>>
    /\ MgrFrozen

\* close(am.stop): closing a closed channel panics.
CloseStop(st) ==
    IF st.closed THEN [st EXCEPT !.pc = "panicked", !.result = "panic"]
    ELSE [st EXCEPT !.closed = TRUE, !.pc = "waiting"]

\* AlertManager.Stop: close(am.stop), on a manager no Stop call is in.
StopClose ==
    /\ stop.pc \in {"idle", "returned"}
    /\ stop' = CloseStop(stop)
    /\ mlog' = [NoStep EXCEPT !.op = "stop"]
    /\ UNCHANGED <<now, rules, loop, wg, workers, lastTick, storage, applied, restored>>
    /\ MgrFrozen

\* AlertManager.Stop after saveAlerts returned sv.
Stopped(sv) ==
    /\ storage' = sv.store
    /\ stop' = [stop EXCEPT !.pc = "returned", !.saveErr = sv.err,
                            !.result = StopResult(sv.err)]

\* AlertManager.Stop: am.wg.Wait() returns, saveAlerts, return.
StopSave ==
    /\ stop.pc = "waiting"
    /\ wg = 0
    /\ \E failAt \in 0..Len(rules), ords \in OrdersOf(rules) :
           Stopped(saveAlerts(rules, storage, 1, failAt, ords))
    /\ mlog' = NoStep
    /\ UNCHANGED <<now, rules, loop, wg, workers, lastTick, applied, restored>>
    /\ MgrFrozen

\* After Stop: NewAlertManager with the same rules and storage, then Run.
Restart ==
    /\ stop.pc = "returned"
    /\ restored = NoData
    /\ \E failAt \in 0..Len(rules) :
           restored' = restoreAlerts([i \in DOMAIN rules |-> [rules[i] EXCEPT !.active = <<>>]],
                                     storage, 1, failAt, now)
    /\ mlog' = NoStep
    /\ UNCHANGED <<now, rules, loop, stop, wg, workers, lastTick, storage, applied>>
    /\ MgrFrozen

\* A manager that is run once and stopped once.
MgrRun == Run /\ loop = "created" /\ stop.pc = "idle"

MgrStop == StopClose /\ stop.pc = "idle"

NextMgr ==
    \/ MgrClock \/ MgrRun \/ TickerFires \/ WorkerEval \/ LoopExit
    \/ MgrStop \/ StopSave \/ Restart

SpecMgr == InitMgr /\ [][NextMgr]_<<vars, pvars, rvars, mvars, ovars>>

\* ------------------------------------------- AlertManager, its operations
\* The rules AddRule is called with.
NewRules == { MgrRule("r1", ("instance" :> "b")), MgrRule("r2", ("instance" :> "b")) }

\* The names RemoveRule is called with.
RuleNames == {"r1", "r2", "r3"}

\* Longest rule list AddRule is called on.
MaxRules == 2

\* The positions of the rules of list rs that are named name.
Named(rs, name) == { i \in DOMAIN rs : rs[i].Name = name }

\* append(am.rules[:i], am.rules[i+1:]...)
RemoveAt(rs, i) == [j \in 1..(Len(rs) - 1) |-> IF j < i THEN rs[j] ELSE rs[j + 1]]

\* The record of an AddRule or RemoveRule call.
AdminStep(op, name, err) ==
    [NoStep EXCEPT !.op = op, !.name = name, !.err = err,
                   !.list = rules, !.store = storage]

\* AlertManager.AddRule(rule): a rule of that name is already there and the
\* call fails, or the rule is appended.
AddRule ==
    \E r \in NewRules :
        /\ Len(rules) < MaxRules
        /\ rules' = IF Named(rules, r.Name) # {} THEN rules ELSE Append(rules, r)
        /\ applied' = IF Named(rules, r.Name) # {} THEN applied ELSE Append(applied, <<>>)
        /\ mlog' = AdminStep("add", r.Name, Named(rules, r.Name) # {})
        /\ UNCHANGED <<now, loop, stop, wg, workers, lastTick, storage, restored>>
        /\ MgrFrozen

\* Mutant of Cleared: the rule is removed whatever SaveAlerts returned.
Cleared_IgnoreError(rs, i, sv) == RemoveAt(rs, i)

\* RemoveRule: the rule list after SaveAlerts(r, nil) returned sv for the
\* rule at position i.
Cleared(rs, i, sv) == IF sv.err THEN rs ELSE RemoveAt(rs, i)

\* The manager after RemoveRule got sv from SaveAlerts(r, nil) for the rule
\* at position i.
Removed(i, sv) ==
    /\ storage' = sv.store
    /\ rules' = Cleared(rules, i, sv)
    /\ applied' = Cleared(applied, i, sv)

\* RemoveRule for the first rule of the name, at position i.
RemoveFound(name, i, sv) ==
    /\ Removed(i, sv)
    /\ mlog' = AdminStep("remove", name, sv.err)

\* AlertManager.RemoveRule(name).  The goroutines of a tick hold their rule
\* by its position in the list, so the call is made when none is in flight.
RemoveRule ==
    \E name \in RuleNames, ioErr \in BOOLEAN :
        /\ workers = {}
        /\ IF Named(rules, name) = {}
           THEN /\ mlog' = AdminStep("remove", name, TRUE)
                /\ UNCHANGED <<rules, storage, applied>>
           ELSE RemoveFound(name, CHOOSE i \in Named(rules, name) :
                                      \A j \in Named(rules, name) : i <= j,
                            SaveAlerts(storage,
                                       [rules[CHOOSE i \in Named(rules, name) :
                                                  \A j \in Named(rules, name) : i <= j]
                                           EXCEPT !.active = <<>>],
                                       <<>>, ioErr))
        /\ UNCHANGED <<now, loop, stop, wg, workers, lastTick, restored>>
        /\ MgrFrozen

\* A manager whose caller calls Run, Stop, AddRule and RemoveRule in any
\* order, at one instant of the wall clock.
NextLife ==
    \/ Run \/ TickerFires \/ WorkerEval \/ LoopExit \/ StopClose \/ StopSave
    \/ AddRule \/ RemoveRule

SpecLife == InitMgr /\ [][NextLife]_<<vars, pvars, rvars, mvars, ovars>>

\* ------------------------------------------------ Rule.Eval, step by step
\* A caller that is inside r.Eval: where it is, what its query returned
\* and what its loops have done.
Caller(id, i, ts, pc, q, acc) ==
    [id |-> id, rule |-> i, ts |-> ts, pc |-> pc, q |-> q, acc |-> acc]

\* r.mtx of rule i is held by a caller.
Locked(i) == \E w \in workers : w.rule = i /\ w.pc \in {"locked", "cleanup"}

LockFrozen ==
    UNCHANGED <<loop, stop, wg, lastTick, storage, applied, mlog, restored>>

LockClock ==
    /\ now < MaxTime
    /\ now' = now + 1
    /\ UNCHANGED <<rules, workers>>
    /\ LockFrozen /\ MgrFrozen

\* r.Eval(ctx, ts, query) is called: the caller is in its query call.
EvalBegin ==
    \E id \in 1..MaxInFlight, i \in DOMAIN rules :
        /\ \A w \in workers : w.id # id
        /\ workers' = workers \cup {Caller(id, i, now, "query", NoData, NoData)}
        /\ UNCHANGED <<now, rules>>
        /\ LockFrozen /\ MgrFrozen

\* The query returns: with an error Eval returns, otherwise the caller
\* goes on to r.mtx.Lock().
EvalQueried ==
    \E w \in workers, q \in MgrQueries :
        /\ w.pc = "query"
        /\ workers' = IF q.err THEN workers \ {w}
                      ELSE (workers \ {w}) \cup {[w EXCEPT !.pc = "wait", !.q = q]}
        /\ UNCHANGED <<now, rules>>
        /\ LockFrozen /\ MgrFrozen

\* r.mtx.Lock() returns.
EvalLock ==
    \E w \in workers :
        /\ w.pc = "wait"
        /\ ~Locked(w.rule)
        /\ workers' = (workers \ {w}) \cup {[w EXCEPT !.pc = "locked"]}
        /\ UNCHANGED <<now, rules>>
        /\ LockFrozen /\ MgrFrozen

\* The caller w after its loop over the samples did acc.
SamplesDone(w, acc) ==
    /\ rules' = [rules EXCEPT ![w.rule].active = acc.active]
    /\ workers' = IF acc.err THEN workers \ {w}
                  ELSE (workers \ {w}) \cup {[w EXCEPT !.pc = "cleanup", !.acc = acc]}

\* The loop over the samples; an error of newAlert returns (and unlocks).
EvalTransitions ==
    \E w \in workers :
        /\ w.pc = "locked"
        /\ SamplesDone(w, EvalSamples(rules[w.rule], w.q.vector, 1, w.ts, now,
                                      EvalAcc(rules[w.rule].active)))
        /\ UNCHANGED now
        /\ LockFrozen /\ MgrFrozen

\* The loop over the absent alerts, return and the deferred r.mtx.Unlock().
EvalCleanup ==
    \E w \in workers :
        /\ w.pc = "cleanup"
        /\ \E ord \in MapOrders(w.acc.active) :
               rules' = [rules EXCEPT ![w.rule].active =
                                          EvalAbsent(ord, 1, w.ts, now, w.acc).active]
        /\ workers' = workers \ {w}
        /\ UNCHANGED now
        /\ LockFrozen /\ MgrFrozen

NextLock ==
    \/ LockClock \/ EvalBegin \/ EvalQueried \/ EvalLock
    \/ EvalTransitions \/ EvalCleanup

SpecLock == InitMgr /\ [][NextLock]_<<vars, pvars, rvars, mvars, ovars>>

\* ------------------------------------------- AlertManager.mtx and Stop
\* am.mtx.RLock() by goroutine id: it holds the lock as a reader, or is
\* blocked while a writer holds the lock or waits for it.
RLock(m, id) ==
    IF m.w = NoData THEN [m EXCEPT !.r = @ \cup {id}]
    ELSE [m EXCEPT !.rwait = @ \cup {id}]

\* am.mtx.RUnlock()
RUnlock(m, id) == [m EXCEPT !.r = @ \ {id}]

\* am.mtx.Lock() for the call c: new readers are held off from here on; the
\* call goes on once the readers that hold the lock have left.
Lock(m, c) == [m EXCEPT !.w = c]

\* Mutant of Unlock: the blocked readers are not woken.
Unlock_NoWake(m) == [m EXCEPT !.w = NoData]

\* am.mtx.Unlock(): the blocked readers get the lock.
Unlock(m) == [m EXCEPT !.w = NoData, !.r = @ \cup m.rwait, !.rwait = {}]

\* Identifiers of the goroutines of evaluateAllRules.
WorkerIds == 1..(MaxInFlight + MaxRules)

\* The i-th smallest element of the set S of numbers.
Nth(S, i) == CHOOSE k \in S : Cardinality({ x \in S : x < k }) = i - 1

\* The goroutines evaluateAllRules starts, one per rule, with ts.
Spawned(ts) ==
    LET free == WorkerIds \ { w.id : w \in workers }
    IN  { [rule |-> i, ts |-> ts, id |-> Nth(free, i)] : i \in DOMAIN rules }

\* What the query returns to a goroutine while Stop is looked at: an
\* error, or no series.
StopQueries == { q \in MgrQueries : q.vector = <<>> }

\* A map-iteration order of the active alerts of every rule of the list.
ActiveOrders(rs) ==
    { o \in [DOMAIN rs -> UNION { MapOrders(rs[i].active) : i \in DOMAIN rs }] :
        \A i \in DOMAIN rs : o[i] \in MapOrders(rs[i].active) }

\* The manager at the instant its caller and its ticker are looked at.
InitStop == InitMgr /\ now = 1

StopFrozen == UNCHANGED <<typ, opt, fsm, entered, last, pvars, rvars, ovars>>

\* Run on a manager whose lock is free: restoreAlerts takes am.mtx.Lock().
StopRun == MgrRun /\ mtx = NoLock

\* loop: the select takes the ticker event; evaluateAllRules calls
\* am.mtx.RLock().
LoopTick ==
    /\ loop = "running"
    /\ Cardinality(workers) + Len(rules) <= MaxInFlight
    /\ loop' = "evaluating"
    /\ mtx' = RLock(mtx, "loop")
    /\ mlog' = NoStep
    /\ UNCHANGED <<now, rules, stop, wg, workers, lastTick, storage, applied, restored>>
    /\ StopFrozen

\* evaluateAllRules with the read lock: wg.Add(1) and a goroutine for
\* every rule, the deferred RUnlock, back to the select.
LoopSpawn ==
    /\ loop = "evaluating"
    /\ "loop" \in mtx.r
    /\ workers' = workers \cup Spawned(now)
    /\ wg' = wg + Len(rules)
    /\ loop' = "running"
    /\ mtx' = RUnlock(mtx, "loop")
    /\ lastTick' = now
    /\ mlog' = NoStep
    /\ UNCHANGED <<now, rules, stop, storage, applied, restored>>
    /\ StopFrozen

\* A goroutine of evaluateAllRules on a rule of the list, as WorkerEval.
StopWorker ==
    \E w \in { x \in workers : x.rule \in DOMAIN rules }, q \in StopQueries :
        \E ord \in MapOrders(rules[w.rule].active) :
            /\ WorkerDone(w, RuleEval(rules[w.rule], q, w.ts, now, ord),
                          Delivery(rules[w.rule],
                                   RuleEval(rules[w.rule], q, w.ts, now, ord), FALSE, now))
            /\ mlog' = NoStep
            /\ UNCHANGED <<now, loop, stop, lastTick, storage, restored, mtx>>
            /\ StopFrozen

\* A goroutine whose rule RemoveRule has taken off the list: its Eval and
\* its notification touch nothing of the manager; wg.Done().
WorkerDetached ==
    \E w \in workers :
        /\ w.rule = 0
        /\ workers' = workers \ {w}
        /\ wg' = wg - 1
        /\ mlog' = NoStep
        /\ UNCHANGED <<now, rules, loop, stop, lastTick, storage, applied, restored, mtx>>
        /\ StopFrozen

\* Stop: am.wg.Wait() returns; saveAlerts calls am.mtx.RLock().
StopWaited ==
    /\ stop.pc = "waiting"
    /\ wg = 0
    /\ stop' = [stop EXCEPT !.pc = "saving"]
    /\ mtx' = RLock(mtx, "stop")
    /\ mlog' = NoStep
    /\ UNCHANGED <<now, rules, loop, wg, workers, lastTick, storage, applied, restored>>
    /\ StopFrozen

\* Stop: saveAlerts with the read lock, the deferred RUnlock, return.
StopSaved ==
    /\ stop.pc = "saving"
    /\ "stop" \in mtx.r
    /\ \E failAt \in 0..Len(rules), ords \in ActiveOrders(rules) :
           Stopped(saveAlerts(rules, storage, 1, failAt, ords))
    /\ mtx' = RUnlock(mtx, "stop")
    /\ mlog' = NoStep
    /\ UNCHANGED <<now, rules, loop, wg, workers, lastTick, applied, restored>>
    /\ StopFrozen

\* AddRule or RemoveRule is called and gets through am.mtx.Lock() as far
\* as holding off new readers.
AdminLock ==
    /\ mtx.w = NoData
    /\ \/ \E r \in NewRules :
              /\ Len(rules) < MaxRules
              /\ mtx' = Lock(mtx, [op |-> "add", name |-> r.Name, rule |-> r])
       \/ \E name \in RuleNames :
              mtx' = Lock(mtx, [op |-> "remove", name |-> name, rule |-> NoRule])
    /\ mlog' = NoStep
    /\ UNCHANGED <<now, rules, loop, stop, wg, workers, lastTick, storage, applied,
                   restored>>
    /\ StopFrozen

\* AddRule with the lock: the duplicate test, the append, the deferred Unlock.
AdminAdd ==
    /\ mtx.w # NoData /\ mtx.w.op = "add"
    /\ mtx.r = {}
    /\ rules' = IF Named(rules, mtx.w.name) # {} THEN rules ELSE Append(rules, mtx.w.rule)
    /\ applied' = IF Named(rules, mtx.w.name) # {} THEN applied ELSE Append(applied, <<>>)
    /\ mtx' = Unlock(mtx)
    /\ mlog' = NoStep
    /\ UNCHANGED <<now, loop, stop, wg, workers, lastTick, storage, restored>>
    /\ StopFrozen

\* The first position of list rs that holds a rule named name.
FirstNamed(rs, name) ==
    CHOOSE i \in Named(rs, name) : \A j \in Named(rs, name) : i <= j

\* The goroutines after the rule at position i left the list: those of that
\* rule go on with a rule that is on no list, the others follow their rule.
Reindexed(ws, i, sv) ==
    IF sv.err THEN ws
    ELSE { [w EXCEPT !.rule = IF w.rule = i THEN 0
                               ELSE IF w.rule > i THEN w.rule - 1 ELSE w.rule] :
           w \in ws }

\* RemoveRule with the lock: the search, SaveAlerts(r, nil), the removal,
\* the deferred Unlock.
AdminRemove ==
    /\ mtx.w # NoData /\ mtx.w.op = "remove"
    /\ mtx.r = {}
    /\ \E ioErr \in BOOLEAN :
           IF Named(rules, mtx.w.name) = {}
           THEN UNCHANGED <<rules, storage, applied, workers>>
           ELSE /\ Removed(FirstNamed(rules, mtx.w.name),
                            SaveAlerts(storage,
                                       [rules[FirstNamed(rules, mtx.w.name)]
                                           EXCEPT !.active = <<>>],
                                       <<>>, ioErr))
                /\ workers' = Reindexed(workers, FirstNamed(rules, mtx.w.name),
                                        [err |-> ioErr])
    /\ mtx' = Unlock(mtx)
    /\ mlog' = NoStep
    /\ UNCHANGED <<now, loop, stop, wg, lastTick, restored>>
    /\ StopFrozen

NextStop ==
    \/ StopRun \/ LoopTick \/ LoopSpawn \/ StopWorker \/ WorkerDetached \/ LoopExit
    \/ MgrStop \/ StopWaited \/ StopSaved \/ AdminLock \/ AdminAdd \/ AdminRemove

\* The goroutines run on: one that can take a step takes it.  The select of
\* the loop chooses at random among its ready cases, so it does not pass
\* over the closed stop channel for ever.  The ticker may fire or not, and
\* Run, Stop, AddRule and RemoveRule are called or not.
StopFairness ==
    /\ WF_<<vars, pvars, rvars, mvars, ovars>>(LoopSpawn)
    /\ WF_<<vars, pvars, rvars, mvars, ovars>>(StopWorker)
    /\ WF_<<vars, pvars, rvars, mvars, ovars>>(WorkerDetached)
    /\ SF_<<vars, pvars, rvars, mvars, ovars>>(LoopExit)
    /\ WF_<<vars, pvars, rvars, mvars, ovars>>(StopWaited)
    /\ WF_<<vars, pvars, rvars, mvars, ovars>>(StopSaved)
    /\ WF_<<vars, pvars, rvars, mvars, ovars>>(AdminAdd)
    /\ WF_<<vars, pvars, rvars, mvars, ovars>>(AdminRemove)

SpecStop == InitStop /\ [][NextStop]_<<vars, pvars, rvars, mvars, ovars>> /\ StopFairness

\* ================================================================ claims
IsCall(t, active) == typ = t /\ last.op = "transition" /\ last.active = active

\* ---------------------------------------------------------------- C1
\* C1: a Basic machine in Inactive that receives Transition(true, ts) moves
\* to Firing, sets lastSentAt = ts and notifies when HoldDuration = 0, and
\* moves to Pending without notifying when HoldDuration > 0.
C1_InactiveTrigger ==
    (IsCall(AlertTypeBasic, TRUE) /\ last.pre.current = AlertStateInactive) =>
        /\ ~last.err
        /\ IF opt.HoldDuration = 0
           THEN /\ fsm.current = AlertStateFiring
                /\ fsm.lastSentAt = last.ts
                /\ last.notify
           ELSE /\ fsm.current = AlertStatePending
                /\ ~last.notify

C1_Witness ==
    /\ IsCall(AlertTypeBasic, TRUE) /\ last.pre.current = AlertStateInactive
    /\ opt.HoldDuration = 0
    /\ fsm.current = AlertStateFiring /\ fsm.lastSentAt = last.ts /\ last.notify

\* ---------------------------------------------------------------- C2
\* C2: a Basic machine in Pending, entered by Transition(true, t0), that
\* receives Transition(true, ts) stays Pending without notifying while
\* ts - t0 < HoldDuration, and moves to Firing, sets lastSentAt = ts and
\* notifies as soon as ts - t0 >= HoldDuration.
C2_HoldFromTriggerTs ==
    (IsCall(AlertTypeBasic, TRUE) /\ last.pre.current = AlertStatePending) =>
        IF last.ts - last.since.ts < opt.HoldDuration
        THEN fsm.current = AlertStatePending /\ ~last.notify
        ELSE /\ fsm.current = AlertStateFiring
             /\ fsm.lastSentAt = last.ts
             /\ last.notify

\* ---------------------------------------------------------------- C3
\* C3: a Basic machine in Pending or Firing that receives Transition(false,
\* ts) moves to Inactive and notifies, without error, whatever ts and the
\* options are.
C3_Resolve ==
    (IsCall(AlertTypeBasic, FALSE)
        /\ last.pre.current \in {AlertStatePending, AlertStateFiring}) =>
        fsm.current = AlertStateInactive /\ last.notify /\ ~last.err

C3_Witness ==
    /\ IsCall(AlertTypeBasic, FALSE) /\ last.pre.current = AlertStatePending
    /\ fsm.current = AlertStateInactive /\ last.notify

\* ---------------------------------------------------------------- C4
\* C4: a Basic machine in Firing that receives Transition(true, ts)
\* auto-resolves to Inactive and notifies when KeepFiringFor > 0 and
\* ts - firedAt >= KeepFiringFor, also when a resend is due as well (the
\* resend is then not performed); otherwise it stays Firing.
C4_KeepFiring ==
    (IsCall(AlertTypeBasic, TRUE) /\ last.pre.current = AlertStateFiring) =>
        IF opt.KeepFiringFor > 0
           /\ Sub(last.ts, last.pre.firedAt) >= opt.KeepFiringFor
        THEN /\ fsm.current = AlertStateInactive
             /\ last.notify
             /\ fsm.lastSentAt = last.pre.lastSentAt
        ELSE fsm.current = AlertStateFiring

C4_Witness ==
    /\ IsCall(AlertTypeBasic, TRUE) /\ last.pre.current = AlertStateFiring
    /\ opt.KeepFiringFor > 0
    /\ Sub(last.ts, last.pre.firedAt) >= opt.KeepFiringFor
    /\ opt.ResendDelay > 0
    /\ Sub(last.ts, last.pre.lastSentAt) >= opt.ResendDelay
    /\ fsm.current = AlertStateInactive /\ last.notify

\* ---------------------------------------------------------------- C5
\* C5: a Basic machine in Firing that receives Transition(true, ts) and
\* does not auto-resolve stays Firing; it notifies and sets lastSentAt = ts
\* exactly when ResendDelay > 0 and ts - lastSentAt >= ResendDelay, and
\* otherwise does not notify and changes nothing.
C5_Resend ==
    (IsCall(AlertTypeBasic, TRUE) /\ last.pre.current = AlertStateFiring
        /\ ~(opt.KeepFiringFor > 0
             /\ Sub(last.ts, last.pre.firedAt) >= opt.KeepFiringFor)) =>
        IF opt.ResendDelay > 0
           /\ Sub(last.ts, last.pre.lastSentAt) >= opt.ResendDelay
        THEN last.notify /\ fsm = [last.pre EXCEPT !.lastSentAt = last.ts]
        ELSE ~last.notify /\ fsm = last.pre

C5_Witness ==
    /\ IsCall(AlertTypeBasic, TRUE) /\ last.pre.current = AlertStateFiring
    /\ fsm.current = AlertStateFiring
    /\ Sub(last.ts, last.pre.lastSentAt) = opt.ResendDelay
    /\ last.notify /\ fsm.lastSentAt = last.ts /\ fsm.lastSentAt # last.pre.lastSentAt

\* ---------------------------------------------------------------- C6
\* C6: a Degrade machine at a level below L3 that receives Transition(true,
\* ts) changes nothing and does not notify while ts minus the instant it
\* entered that level (a fresh machine: the instant it was created) is
\* below HoldDuration; otherwise it moves exactly one level up, sets
\* lastSentAt = ts and notifies.
C6_Degrade ==
    (IsCall(AlertTypeMultiTier, TRUE) /\ last.pre.current # AlertStateL3) =>
        IF Sub(last.ts, last.since.wall) < opt.HoldDuration
        THEN fsm = last.pre /\ ~last.notify
        ELSE /\ <<last.pre.current, fsm.current>> \in
                   { <<AlertStateL0, AlertStateL1>>, <<AlertStateL1, AlertStateL2>>,
                     <<AlertStateL2, AlertStateL3>> }
             /\ fsm.lastSentAt = last.ts
             /\ last.notify

C6_Witness ==
    /\ IsCall(AlertTypeMultiTier, TRUE) /\ last.pre.current = AlertStateL1
    /\ opt.HoldDuration > 0
    /\ Sub(last.ts, last.since.wall) >= opt.HoldDuration
    /\ fsm.current = AlertStateL2 /\ last.notify

\* ---------------------------------------------------------------- C7
\* C7: a Degrade machine above L0 that receives Transition(false, ts), with
\* d = ts minus the instant it entered its level: jumps to L0 when
\* AutoRecoverAfter > 0 and d >= AutoRecoverAfter; else moves one level down
\* when d >= RecoverDuration; else changes nothing and does not notify.
\* Every move sets lastSentAt = ts and notifies.
C7_Recover ==
    (IsCall(AlertTypeMultiTier, FALSE) /\ last.pre.current # AlertStateL0) =>
        LET d == Sub(last.ts, last.since.wall)
        IN  IF opt.AutoRecoverAfter > 0 /\ d >= opt.AutoRecoverAfter
            THEN /\ fsm.current = AlertStateL0
                 /\ fsm.lastSentAt = last.ts /\ last.notify
            ELSE IF d >= opt.RecoverDuration
            THEN /\ <<last.pre.current, fsm.current>> \in
                       { <<AlertStateL3, AlertStateL2>>, <<AlertStateL2, AlertStateL1>>,
                         <<AlertStateL1, AlertStateL0>> }
                 /\ fsm.lastSentAt = last.ts /\ last.notify
            ELSE fsm = last.pre /\ ~last.notify

C7_Witness ==
    /\ IsCall(AlertTypeMultiTier, FALSE) /\ last.pre.current = AlertStateL3
    /\ opt.AutoRecoverAfter > 0
    /\ Sub(last.ts, last.since.wall) >= opt.AutoRecoverAfter
    /\ Sub(last.ts, last.since.wall) >= opt.RecoverDuration
    /\ fsm.current = AlertStateL0 /\ last.notify

\* ---------------------------------------------------------------- C8
\* C8: a Degrade machine at L3 that receives Transition(true, ts) stays at
\* L3; it notifies and sets lastSentAt = ts exactly when ResendDelay > 0 and
\* ts - lastSentAt >= ResendDelay, and otherwise does not notify and leaves
\* lastSentAt unchanged.
C8_ResendAtL3 ==
    (IsCall(AlertTypeMultiTier, TRUE) /\ last.pre.current = AlertStateL3) =>
        /\ fsm.current = AlertStateL3
        /\ IF opt.ResendDelay > 0
              /\ Sub(last.ts, last.pre.lastSentAt) >= opt.ResendDelay
           THEN last.notify /\ fsm.lastSentAt = last.ts
           ELSE ~last.notify /\ fsm.lastSentAt = last.pre.lastSentAt

C8_Witness ==
    /\ IsCall(AlertTypeMultiTier, TRUE) /\ last.pre.current = AlertStateL3
    /\ fsm.current = AlertStateL3
    /\ last.notify /\ fsm.lastSentAt = last.ts /\ fsm.lastSentAt # last.pre.lastSentAt

\* ---------------------------------------------------------------- C9
\* C9: Transition(false, ts) on a machine that is already Inactive (Basic)
\* or L0 (Degrade) does not notify, returns no error and leaves the state
\* and every timer unchanged, however often it is repeated.
C9_IdleIdempotent ==
    (last.op = "transition" /\ ~last.active
        /\ last.pre.current \in {AlertStateInactive, AlertStateL0}) =>
        ~last.notify /\ ~last.err /\ fsm = last.pre

\* The second of two such calls in a row on a Degrade machine that has been
\* away from L0 before.
C9_Witness ==
    /\ last.op = "transition" /\ ~last.active
    /\ last.pre.current = AlertStateL0 /\ fsm.current = AlertStateL0
    /\ AlertStateL1 \in DOMAIN fsm.stateEnteredAt
    /\ ~last.notify

\* ---------------------------------------------------------------- C10
\* C10: every Transition call on a Basic machine that notifies has changed
\* the state or moved lastSentAt to a strictly later instant.
C10_NotifyHasEffect ==
    (typ = AlertTypeBasic /\ last.op = "transition" /\ last.notify) =>
        \/ fsm.current # last.pre.current
        \/ Sub(fsm.lastSentAt, last.pre.lastSentAt) > 0

C10_Witness ==
    /\ typ = AlertTypeBasic /\ last.op = "transition" /\ last.notify
    /\ fsm.current = last.pre.current
    /\ Sub(fsm.lastSentAt, last.pre.lastSentAt) > 0

\* ---------------------------------------------------------------- C11
\* C11: Marshal of an alert reached by SetValue and Transition calls
\* succeeds, and Restore of its output succeeds and yields an alert with the
\* same state, value, labels and timers whose own Marshal output is the same
\* bytes.
C11_RoundTrip ==
    (saved.op = "persist" /\ saved.fresh) =>
        /\ ~saved.merr /\ ~saved.rerr
        /\ fsm = saved.orig.fsm
        /\ Value = saved.orig.Value
        /\ labels = saved.orig.labels
        /\ AlertMarshal(ThisAlert) = [data |-> saved.data, err |-> FALSE]

\* ---------------------------------------------------------------- C12
\* C12: after Restore(data, opts) the alert carries the supplied options
\* and the state and timers of data, and every later Transition decides with
\* the supplied thresholds, whatever the options were at Marshal time.
C12_SuppliedOpts ==
    (saved.op = "persist" /\ ~saved.merr /\ ~saved.rerr) =>
        /\ opt = saved.opts
        /\ saved.fresh => fsm = saved.orig.fsm
        /\ last.op = "transition" =>
               Result(fsm, last.notify, last.err) =
                   AlertTransition(typ, last.pre, last.active, last.ts,
                                   saved.opts, now)

\* A decision after a retune that the options of Marshal time would have
\* taken differently.
C12_Witness ==
    /\ saved.op = "persist" /\ ~saved.merr /\ ~saved.rerr
    /\ saved.opts # saved.was
    /\ last.op = "transition"
    /\ Result(fsm, last.notify, last.err) #
           AlertTransition(typ, last.pre, last.active, last.ts, saved.was, now)

\* ---------------------------------------------------------------- C13
\* Alert.State() is the fully-inactive state of its machine.
FullyInactive(a) == a.fsm.current \in {AlertStateInactive, AlertStateL0}

IsEval == evalLog.op = "eval"

\* The fingerprints the last Eval returned.
Returned == { evalLog.ret[i] : i \in DOMAIN evalLog.ret }

\* The Transition calls the last Eval made on fingerprint fp.
CallsOn(fp) == { i \in DOMAIN evalLog.calls : evalLog.calls[i].fp = fp }

\* C13: an Eval whose query fails returns the error and no alerts, makes
\* no Transition call, and leaves the active set with every alert's state,
\* timers and value as before the call.
C13_QueryError ==
    (IsEval /\ evalLog.qerr) =>
        /\ evalLog.err
        /\ evalLog.ret = <<>>
        /\ evalLog.calls = <<>>
        /\ rule.active = evalLog.pre

\* A failed query while an alert of the rule is not fully inactive.
C13_Witness ==
    /\ IsEval /\ evalLog.qerr
    /\ \E fp \in DOMAIN evalLog.pre : ~FullyInactive(evalLog.pre[fp])

\* ---------------------------------------------------------------- C14
\* C14: every alert an Eval removes from the active set is, at that moment,
\* in its fully-inactive state (Inactive, L0) and is in the returned list.
C14_RemovedOnlyInactive ==
    IsEval =>
        \A fp \in DOMAIN evalLog.pre \ DOMAIN rule.active :
            /\ fp \in Returned
            /\ \E i \in CallsOn(fp) :
                   /\ \A j \in CallsOn(fp) : j <= i
                   /\ FullyInactive(evalLog.calls[i].post)

\* ---------------------------------------------------------------- C15
\* The alert has left its fully-inactive state at some time and is back in it.
Resolved(a) ==
    /\ FullyInactive(a)
    /\ IF a.typ = AlertTypeBasic THEN a.fsm.lastSentAt # ZeroTime
       ELSE AlertStateL1 \in DOMAIN a.fsm.stateEnteredAt

\* C15: for a fingerprint of the active set that is absent from the query
\* result, Eval calls Transition(false, ts) on its alert exactly once (and
\* Transition(true, ts) never), and if the alert then has resolved to its
\* fully-inactive state the fingerprint is out of the active set and the
\* alert is in the returned list.
C15_AbsentResolved ==
    (IsEval /\ ~evalLog.err) =>
        \A fp \in DOMAIN evalLog.pre \ evalLog.seen :
            /\ Cardinality(CallsOn(fp)) = 1
            /\ \A i \in CallsOn(fp) :
                   /\ ~evalLog.calls[i].active
                   /\ evalLog.calls[i].pre = evalLog.pre[fp]
                   /\ Resolved(evalLog.calls[i].post) =>
                          fp \notin DOMAIN rule.active /\ fp \in Returned

\* ---------------------------------------------------------------- C16
\* C16: the active map holds an alert under the fingerprint of its own
\* labels only, so at most one per fingerprint; every Transition call of an
\* Eval is made on the alert the map held for the fingerprint (with the
\* state earlier calls left it in), and on a new alert in the initial state
\* of the rule's variant only when the map had no entry.
C16_OneAlertPerFingerprint ==
    /\ \A fp \in DOMAIN rule.active : Hash(rule.active[fp].labels) = fp
    /\ IsEval =>
           \A i \in DOMAIN evalLog.calls :
               LET c == evalLog.calls[i]
                   earlier == { j \in CallsOn(c.fp) : j < i }
               IN  c.pre =
                       IF earlier # {}
                       THEN evalLog.calls[CHOOSE j \in earlier : \A k \in earlier : k <= j].post
                       ELSE IF c.fp \in DOMAIN evalLog.pre THEN evalLog.pre[c.fp]
                       ELSE MkAlert(c.fp, rule.AlertType, rule.AlertOpts, ZeroValue,
                                    NewFsm(rule.AlertType, now))

\* A present fingerprint whose alert carries state from earlier evaluations.
C16_Witness ==
    /\ IsEval
    /\ \E i \in DOMAIN evalLog.calls :
           /\ evalLog.calls[i].active
           /\ evalLog.calls[i].fp \in DOMAIN evalLog.pre
           /\ ~FullyInactive(evalLog.calls[i].pre)
           /\ evalLog.calls[i].post.fsm # evalLog.calls[i].pre.fsm

\* ---------------------------------------------------------------- C17
\* C17: the ts values passed to Transition on one alert of a rule never
\* decrease, in the order the calls take effect, whatever the interleaving
\* of the goroutines of successive ticks.
C17_TsMonotone ==
    mlog.op = "eval" =>
        \A fp \in mlog.touched \cap DOMAIN mlog.prev : mlog.prev[fp] <= mlog.ts

\* ---------------------------------------------------------------- C18
\* The marshalled alerts the storage holds for rule r.
Stored(r) ==
    IF r.Name \in DOMAIN storage
    THEN { storage[r.Name][i] : i \in DOMAIN storage[r.Name] }
    ELSE {}

\* C18: once Stop has returned, the loop is not running, no goroutine of a
\* tick is left, and if the saves succeeded the storage holds for every rule
\* of the list exactly the alerts of that rule's active set.
C18_StopQuiescent ==
    stop.pc = "returned" =>
        /\ loop # "running"
        /\ workers = {} /\ wg = 0
        /\ ~stop.saveErr =>
               \A i \in DOMAIN rules :
                   Stored(rules[i]) =
                       { AlertMarshal(rules[i].active[fp]).data : fp \in DOMAIN rules[i].active }

\* ---------------------------------------------------------------- C19
\* C19: a manager whose Run on the same rules and storage succeeded after
\* Stop has, for every rule, the active set the stopped manager's rule held:
\* the same fingerprints with alerts of the same state, timers, labels and
\* value.
C19_RestartRoundTrip ==
    (restored # NoData /\ ~restored.err) =>
        \A i \in DOMAIN rules : restored.rules[i].active = rules[i].active

\* ---------------------------------------------------------------- C20
\* C20: when saving the alerts fails during Stop, the caller of Stop gets
\* a failure.
C20_SaveFailureSurfaced ==
    (stop.pc = "returned" /\ stop.saveErr) => stop.result = "error"

\* ---------------------------------------------------------------- C21
\* C21: a Run in which the load of a rule's alerts fails returns the error
\* and does not start the loop; while the manager is in that state no tick
\* happens, no goroutine evaluates a rule and the notifier is not called.
C21_LoadFailureAbortsRun ==
    /\ (mlog.op = "run" /\ mlog.err) => loop = "failed"
    /\ loop = "failed" =>
           /\ workers = {} /\ wg = 0 /\ lastTick = ZeroTime
           /\ mlog.op \notin {"tick", "eval"} /\ ~mlog.called

\* The load of the second of two rules failed, and time has passed since.
C21_Witness ==
    /\ loop = "failed" /\ Len(rules) = 2
    /\ mlog.op = "none" /\ now = MaxTime

\* ---------------------------------------------------------------- C22
\* C22: the goroutine of a rule in a tick calls the notifier at most once:
\* exactly when its Eval returned no error and at least one alert, and
\* then with one notification per entry of the returned list, in order,
\* carrying the rule's name and the alert's labels, state and value.
C22_OneBatchPerRule ==
    mlog.op = "eval" =>
        /\ mlog.called <=> (~mlog.err /\ Len(mlog.ret) > 0)
        /\ Len(mlog.batch) = (IF mlog.called THEN Len(mlog.ret) ELSE 0)
        /\ \A i \in DOMAIN mlog.batch :
               /\ mlog.batch[i].Rule = rules[mlog.rule].Name
               /\ mlog.batch[i].Labels = ReturnedAlert(mlog, mlog.ret[i]).labels
               /\ mlog.batch[i].Status = ReturnedAlert(mlog, mlog.ret[i]).fsm.current
               /\ mlog.batch[i].Value = ReturnedAlert(mlog, mlog.ret[i]).Value

\* A batch of two notifications.
C22_Witness ==
    mlog.op = "eval" /\ mlog.called /\ Len(mlog.batch) = 2

\* ---------------------------------------------------------------- C23
\* C23: after a goroutine whose Notify call returned an error, the rule's
\* active set (states, timers, values) is what the Eval computed, as after
\* a successful delivery; and every notification handed to the notifier is
\* for an alert whose Transition call in this same Eval decided to notify,
\* so no batch of an earlier tick is delivered again.
C23_NotifyFailureKeepsState ==
    mlog.op = "eval" =>
        /\ mlog.nerr => rules[mlog.rule].active = mlog.post
        /\ \A i \in DOMAIN mlog.batch :
               \E k \in DOMAIN mlog.calls :
                   /\ mlog.calls[k].fp = Hash(mlog.batch[i].Labels)
                   /\ mlog.calls[k].notify /\ ~mlog.calls[k].err

\* A failed delivery of a batch for alerts that changed state.
C23_Witness ==
    /\ mlog.op = "eval" /\ mlog.nerr
    /\ mlog.post # mlog.pre
    /\ rules[mlog.rule].active # <<>>

\* ---------------------------------------------------------------- C24
\* C24: a goroutine whose query failed leaves its rule's active set as it
\* was, calls no notifier, and leaves the other goroutines in flight; the
\* loop ends only through Stop; and every tick starts a goroutine for
\* every rule of the list, whatever earlier ticks did.
C24_FailureIsLocal ==
    /\ (mlog.op = "eval" /\ mlog.qerr) =>
           /\ mlog.err /\ ~mlog.called
           /\ rules[mlog.rule].active = mlog.pre
           /\ workers = mlog.others
    /\ loop = "exited" => stop.closed
    /\ mlog.op = "tick" =>
           \A i \in DOMAIN rules : [rule |-> i, ts |-> mlog.ts] \in workers

\* A failed query for a rule that holds alerts, with another goroutine
\* still to run.
C24_Witness ==
    /\ mlog.op = "eval" /\ mlog.qerr
    /\ mlog.pre # <<>>
    /\ workers # {}

\* ---------------------------------------------------------------- C25
\* C25: RemoveRule(name) for a name not in the list returns an error and
\* changes neither the list nor the storage; for a name in the list, a
\* failing save returns the error and leaves the list unchanged; otherwise
\* the storage holds the empty alert set for the name and the first rule of
\* that name is gone from the list, the other rules keeping their order.
C25_RemoveRule ==
    mlog.op = "remove" =>
        IF Named(mlog.list, mlog.name) = {}
        THEN mlog.err /\ rules = mlog.list /\ storage = mlog.store
        ELSE IF mlog.err
        THEN rules = mlog.list /\ storage = mlog.store
        ELSE /\ mlog.name \in DOMAIN storage /\ storage[mlog.name] = <<>>
             /\ \A n \in DOMAIN storage \ {mlog.name} :
                    n \in DOMAIN mlog.store /\ storage[n] = mlog.store[n]
             /\ Len(rules) = Len(mlog.list) - 1
             /\ \E i \in Named(mlog.list, mlog.name) :
                    /\ \A j \in Named(mlog.list, mlog.name) : i <= j
                    /\ \A j \in DOMAIN rules :
                           rules[j] = mlog.list[IF j < i THEN j ELSE j + 1]

\* The first of two rules is removed while the storage holds alerts for it.
C25_Witness ==
    /\ mlog.op = "remove" /\ ~mlog.err
    /\ Len(mlog.list) = 2 /\ mlog.list[1].Name = mlog.name
    /\ mlog.name \in DOMAIN mlog.store /\ mlog.store[mlog.name] # <<>>

\* ---------------------------------------------------------------- C26
\* C26: no two rules of the manager's list have the same name, and AddRule
\* with a name of the list returns an error and leaves the list unchanged.
C26_UniqueNames ==
    /\ \A i, j \in DOMAIN rules : rules[i].Name = rules[j].Name => i = j
    /\ (mlog.op = "add" /\ Named(mlog.list, mlog.name) # {}) =>
           mlog.err /\ rules = mlog.list

\* ---------------------------------------------------------------- C27
\* C27: once Stop has returned, no tick starts evaluations, no goroutine
\* evaluates, and no call panics.
C27_StoppedIsTerminal ==
    /\ stop.result # "panic"
    /\ stop.pc = "returned" => mlog.op \notin {"tick", "eval"}

\* ---------------------------------------------------------------- C28
\* C28: a notification carries an end timestamp exactly when the alert it
\* was built for is in its fully-inactive state (to which it has just
\* resolved, as Eval returned it).
C28_EndsAtOnResolve ==
    mlog.op = "eval" =>
        \A i \in DOMAIN mlog.batch :
            (mlog.batch[i].EndsAt # ZeroTime) <=>
                (mlog.batch[i].Status \in {AlertStateInactive, AlertStateL0})

\* ---------------------------------------------------------------- C29
\* Arguments NewRule is called with.
RuleArgs ==
    [name : {"", "R"}, expr : {"", "up"}, hold : (0 - 1)..MaxDur,
     keepFiring : (0 - 1)..MaxDur, resendDelay : (0 - 1)..MaxDur]

NewRuleOf(a) ==
    NewRule(a.name, a.expr, a.hold, a.keepFiring, a.resendDelay, ("instance" :> "a"))

\* The evaluated rule is one that NewRule returned.
FromNewRule ==
    \E a \in RuleArgs :
        /\ ~NewRuleOf(a).err
        /\ NewRuleOf(a).rule = [rule EXCEPT !.active = <<>>]

\* C29: NewRule fails exactly for an empty name, an empty expression or a
\* negative duration, and an Eval of a rule that NewRule returned fails
\* only when its query fails.
C29_ConfigErrorsAtConstruction ==
    /\ \A a \in RuleArgs :
           NewRuleOf(a).err <=>
               \/ a.name = "" \/ a.expr = ""
               \/ a.hold < 0 \/ a.keepFiring < 0 \/ a.resendDelay < 0
    /\ (IsEval /\ ~evalLog.qerr /\ FromNewRule) => ~evalLog.err

\* ---------------------------------------------------------------- C30
\* The callers that are in step 1, 2 or 3 of an Eval of rule i: in the
\* query call, in the loop over the samples, or in the cleanup.
Evaluating(i) ==
    { w \in workers : w.rule = i /\ w.pc \in {"query", "locked", "cleanup"} }

\* C30: at most one caller at a time is in the query call, the
\* per-sample transitions or the absent-alert cleanup of an Eval of one rule.
C30_OneEvalPerRule ==
    \A i \in DOMAIN rules : Cardinality(Evaluating(i)) <= 1

\* ---------------------------------------------------------------- C31
\* C31: when Transition(true, ts) moves a Basic machine from Inactive to
\* Pending, activeAt is the ts of that call, whatever the wall clock reads
\* at the time of the call.
C31_ActiveAtIsTs ==
    (/\ IsCall(AlertTypeBasic, TRUE)
     /\ last.pre.current = AlertStateInactive
     /\ fsm.current = AlertStatePending) =>
        fsm.activeAt = last.ts

\* ---------------------------------------------------------------- C32
\* C32: in a Basic machine a call that enters Firing stamps firedAt, a call
\* that moves from Firing to Inactive resets it to the zero value, every
\* other call leaves it alone; so firedAt is non-zero exactly when the
\* machine is in Firing.
C32_FiredAtIffFiring ==
    typ = AlertTypeBasic =>
        /\ (fsm.firedAt # ZeroTime) <=> (fsm.current = AlertStateFiring)
        /\ last.op = "transition" =>
               IF fsm.current = AlertStateFiring /\ last.pre.current # AlertStateFiring
               THEN fsm.firedAt # ZeroTime
               ELSE IF last.pre.current = AlertStateFiring
                       /\ fsm.current = AlertStateInactive
               THEN fsm.firedAt = ZeroTime
               ELSE fsm.firedAt = last.pre.firedAt

C32_Witness ==
    /\ typ = AlertTypeBasic /\ last.op = "transition"
    /\ last.pre.current = AlertStateFiring /\ last.pre.firedAt # ZeroTime
    /\ fsm.current = AlertStateInactive /\ fsm.firedAt = ZeroTime

\* ---------------------------------------------------------------- C33
\* The fingerprint of sample i of the evaluated vector.
SampleFp(i) == Hash(formatLabels(rule, evalLog.vector[i].Metric))

\* The calls of the Eval that put their alert on the returned list.
Collected == SelectSeq(evalLog.calls, LAMBDA c : c.notify /\ ~c.err)

\* C33: when Transition fails for the alert of a sample, Eval leaves that
\* alert's machine alone and does not return it for that sample, still
\* calls Transition once for every sample of the vector, in order, and once
\* for every alert absent from it, and returns no error and the alerts
\* whose calls asked for a notification.
C33_SampleErrorSkipped ==
    (/\ IsEval /\ ~evalLog.qerr
     /\ \E i \in DOMAIN evalLog.calls : evalLog.calls[i].active /\ evalLog.calls[i].err) =>
        /\ ~evalLog.err
        /\ \A i \in DOMAIN evalLog.vector :
               /\ i \in DOMAIN evalLog.calls
               /\ evalLog.calls[i].active
               /\ evalLog.calls[i].fp = SampleFp(i)
        /\ \A fp \in DOMAIN evalLog.pre \ evalLog.seen :
               Cardinality({ i \in CallsOn(fp) : ~evalLog.calls[i].active }) = 1
        /\ \A i \in DOMAIN evalLog.calls :
               evalLog.calls[i].err =>
                   /\ evalLog.calls[i].post.fsm = evalLog.calls[i].pre.fsm
                   /\ ~evalLog.calls[i].notify
        /\ evalLog.ret = [i \in DOMAIN Collected |-> Collected[i].fp]

C33_Witness ==
    /\ IsEval /\ ~evalLog.err
    /\ Len(evalLog.vector) >= 2
    /\ evalLog.calls[1].active /\ evalLog.calls[1].err
    /\ evalLog.calls[2].active /\ ~evalLog.calls[2].err /\ evalLog.calls[2].notify
    /\ evalLog.ret # <<>>

\* ---------------------------------------------------------------- C34
\* The sample whose labels were formatted.
Formatted == evalLog.vector[1].Metric

\* C34: the formatted labels carry, per name: the rule's name under the
\* alert name, nothing under the metric name, the sample's value where the
\* sample has one, and the rule label's value where the sample has none (a
\* label without a value counts as absent); they carry no other label.
C34_FormatLabels ==
    evalLog.op = "format" =>
        /\ \A k \in LabelNames :
               LGet(labels, k) =
                   IF k = AlertName THEN rule.Name
                   ELSE IF k = MetricName THEN ""
                   ELSE IF LGet(Formatted, k) # "" THEN Formatted[k]
                   ELSE LGet(rule.Labels, k)
        /\ DOMAIN labels \subseteq LabelNames
        /\ \A k \in DOMAIN labels : labels[k] # ""

C34_Witness ==
    /\ evalLog.op = "format"
    /\ LGet(Formatted, "instance") = "s" /\ LGet(rule.Labels, "instance") = "r"
    /\ LGet(Formatted, "job") = "" /\ LGet(rule.Labels, "job") = "r"
    /\ LGet(Formatted, AlertName) = "s" /\ LGet(rule.Labels, AlertName) = "r"
    /\ LGet(Formatted, MetricName) = "s"
    /\ labels = [alertname |-> rule.Name, instance |-> "s", job |-> "r"]

\* ---------------------------------------------------------------- C35
\* C35: a Stop call that has closed the stop channel and waits returns,
\* whatever the loop, the goroutines of its ticks and concurrent AddRule
\* and RemoveRule calls do.
C35_StopReturns == (stop.pc = "waiting") ~> (stop.pc = "returned")

\* Stop waits while a tick is in progress: the loop is blocked in RLock
\* behind a concurrent RemoveRule, and goroutines of an earlier tick run.
C35_Witness ==
    /\ stop.pc = "waiting"
    /\ loop = "evaluating" /\ "loop" \in mtx.rwait
    /\ mtx.w # NoData /\ mtx.w.op = "remove"
    /\ workers # {}

\* ---------------------------------------------------------------- C36
\* C36: in one Eval no alert gets more than one Transition call and no
\* alert is returned more than once, also when samples of the vector
\* share a fingerprint.
C36_OneTransitionPerAlert ==
    IsEval =>
        /\ \A i, j \in DOMAIN evalLog.calls :
               evalLog.calls[i].fp = evalLog.calls[j].fp => i = j
        /\ \A i, j \in DOMAIN evalLog.ret :
               evalLog.ret[i] = evalLog.ret[j] => i = j

\* ------------------------------------------------- common.CounterWindow
\* Largest size a window is created with.
MaxSize == 3

\* The keys callers count.
WindowKeys == {"a", "b"}

\* The []string arguments of Add and Adapt: a nil slice, the empty slice and
\* the slices of one or two keys, a key twice included.
KeyLists ==
    {<<>>} \cup { <<k>> : k \in WindowKeys }
           \cup { <<k, j>> : k \in WindowKeys, j \in WindowKeys }

KeyArgs == [nil : {TRUE}, ks : {<<>>}] \cup [nil : {FALSE}, ks : KeyLists]

\* NewCounterWindow(size, limit); NoData is the nil window returned with
\* the "param invalid" error.
NewCounterWindow(size, limit) ==
    IF size < 2 \/ limit < 1 \/ size < limit
    THEN NoData
    ELSE [size |-> size, limit |-> limit, elems |-> <<>>, elemCounts |-> <<>>]

\* The loop of pop over the keys of the entry taken out.
RECURSIVE popCounts(_, _)
popCounts(counts, out) ==
    IF out = <<>> THEN counts
    ELSE LET k == Head(out)
         IN  popCounts(IF k \in DOMAIN counts
                       THEN IF counts[k] = 1
                            THEN [x \in DOMAIN counts \ {k} |-> counts[x]]
                            ELSE [counts EXCEPT ![k] = @ - 1]
                       ELSE counts,
                       Tail(out))

\* The loop of push over the keys of the entry put in.
RECURSIVE pushCounts(_, _)
pushCounts(counts, ks) ==
    IF ks = <<>> THEN counts
    ELSE LET k == Head(ks)
         IN  pushCounts(IF k \notin DOMAIN counts
                        THEN counts @@ (k :> 1)
                        ELSE [counts EXCEPT ![k] = @ + 1],
                        Tail(ks))

pop_DropKeys(w) ==
    IF Len(w.elems) = 0 THEN w
    ELSE [w EXCEPT !.elems = Tail(w.elems),
                   !.elemCounts = [x \in DOMAIN w.elemCounts \ { Head(w.elems)[i] : i \in 1..Len(Head(w.elems)) } |-> w.elemCounts[x]]]

pop(w) ==
    IF Len(w.elems) = 0 THEN w
    ELSE [w EXCEPT !.elems = Tail(w.elems),
                   !.elemCounts = popCounts(w.elemCounts, Head(w.elems))]

push(w, ks) ==
    LET pushed == [w EXCEPT !.elemCounts = pushCounts(w.elemCounts, ks),
                            !.elems = Append(w.elems, ks)]
    IN  IF Len(pushed.elems) > w.size - 1 THEN pop(pushed) ELSE pushed

checkThreshold(w, e) ==
    ~(e \in DOMAIN w.elemCounts /\ w.elemCounts[e] + 1 > w.limit)

check(w, ks) == \A i \in 1..Len(ks) : checkThreshold(w, ks[i])

\* A window as NewCounterWindow returned it, and no call made on it.
NewWindow(w) ==
    [w |-> w, pc |-> "idle", op |-> "new", keys |-> <<>>, popped |-> 0]

\* One alert and one rule that nothing touches, and no manager.
ProgramIdle ==
    /\ now = 1
    /\ typ = AlertTypeBasic
    /\ opt = CHOOSE o \in RuleOpts(AlertTypeBasic) :
                 o.HoldDuration = 0 /\ o.KeepFiringFor = 0
    /\ fsm = NewFsm(typ, ZeroTime)
    /\ entered = [ts |-> ZeroTime, wall |-> ZeroTime]
    /\ last = NoCall(fsm)
    /\ PersistIdle
    /\ RuleIdle
    /\ NoManager

InitWindow ==
    /\ ProgramIdle
    /\ shot = NoData
    /\ \E size \in 1..MaxSize, limit \in 0..MaxSize :
           /\ NewCounterWindow(size, limit) # NoData
           /\ cw = NewWindow(NewCounterWindow(size, limit))

WindowFrozen == UNCHANGED <<vars, pvars, rvars, mvars, shot>>

\* w.Add(keys)
Add ==
    /\ cw.pc = "idle"
    /\ \E a \in KeyArgs :
           cw' = [cw EXCEPT !.w = IF a.nil THEN push(cw.w, <<>>)
                                           ELSE push(cw.w, a.ks),
                            !.op = "add", !.keys = a.ks, !.popped = 0]
    /\ WindowFrozen

\* w.Adapt(keys) up to its loop: a nil slice is pushed at once.
AdaptCall ==
    /\ cw.pc = "idle"
    /\ \E a \in KeyArgs :
           cw' = IF a.nil
                 THEN [cw EXCEPT !.w = push(cw.w, <<>>), !.op = "adapt",
                                 !.keys = a.ks, !.popped = 0]
                 ELSE [cw EXCEPT !.pc = "adapting", !.op = "adapt",
                                 !.keys = a.ks, !.popped = 0]
    /\ WindowFrozen

\* One turn of `for !w.check(keys) { w.pop() }`.
AdaptPop ==
    /\ cw.pc = "adapting"
    /\ ~check(cw.w, cw.keys)
    /\ cw' = [cw EXCEPT !.w = pop(cw.w), !.popped = 1]
    /\ WindowFrozen

\* The loop left: w.push(keys), and Adapt returns.
AdaptPush ==
    /\ cw.pc = "adapting"
    /\ check(cw.w, cw.keys)
    /\ cw' = [cw EXCEPT !.w = push(cw.w, cw.keys), !.pc = "idle"]
    /\ WindowFrozen

NextWindow == Add \/ AdaptCall \/ AdaptPop \/ AdaptPush

\* A call of Adapt that was entered goes on running.
WindowFairness ==
    /\ WF_<<vars, pvars, rvars, mvars, ovars>>(AdaptPop)
    /\ WF_<<vars, pvars, rvars, mvars, ovars>>(AdaptPush)

SpecWindow ==
    InitWindow /\ [][NextWindow]_<<vars, pvars, rvars, mvars, ovars>>
               /\ WindowFairness

\* ------------------------------------------- snapshots of live machines
\* Machines rebuilt from one snapshot.
MaxRestored == 2

\* A Go map value refers to its table: stateEnteredAt of a DegradeFsm and
\* StateEnteredAt of an AlertSnapshot hold an index of heap, the tables
\* made so far.  A PromAlertFsm has no such field and its snapshots carry
\* the nil map.
Load(t, heap, m) ==
    IF t = AlertTypeBasic THEN m
    ELSE [m EXCEPT !.stateEnteredAt = heap[m.stateEnteredAt]]

\* A snapshot with the table its StateEnteredAt refers to.
LoadSnapshot(t, heap, snap) ==
    IF t = AlertTypeBasic THEN snap
    ELSE [snap EXCEPT !.StateEnteredAt = heap[snap.StateEnteredAt]]

\* The tables after machine m, of table index m.stateEnteredAt, became n.
StoreTable(t, heap, m, n) ==
    IF t = AlertTypeBasic THEN heap
    ELSE [heap EXCEPT ![m.stateEnteredAt] = n.stateEnteredAt]

\* Machine n held by the receiver whose table index is m's.
StoreFsm(t, m, n) ==
    IF t = AlertTypeBasic THEN n
    ELSE [n EXCEPT !.stateEnteredAt = m.stateEnteredAt]

\* NewFsm(typ): a DegradeFsm makes its own table.
AllocFsm(t, heap, wall) ==
    IF t = AlertTypeBasic THEN [heap |-> heap, fsm |-> NewFsm(t, wall)]
    ELSE [heap |-> Append(heap, NewFsm(t, wall).stateEnteredAt),
          fsm  |-> [NewFsm(t, wall) EXCEPT !.stateEnteredAt = Len(heap) + 1]]

\* The restored machines other than machine i, itself a restored one, as a
\* reader sees them.
OtherRestored(sh, i) ==
    [j \in { x \in DOMAIN sh.fsms : x > 1 /\ i > 1 /\ x # i } |->
        Load(sh.typ, sh.heap, sh.fsms[j])]

\* One machine made by NewFsm, no snapshot taken.
InitShot ==
    /\ ProgramIdle
    /\ cw = NoData
    /\ \E t \in SupportedTypes :
       \E o \in { x \in OptsFor(t) : x.HoldDuration = 0 /\ x.ResendDelay = 0
                                   /\ x.RecoverDuration = 0 } :
           LET a == AllocFsm(t, <<>>, now)
           IN  shot = [typ |-> t, opt |-> o, heap |-> a.heap,
                       fsms |-> <<a.fsm>>, snap |-> NoData, taken |-> NoData,
                       op |-> "new", who |-> 0, pre |-> <<>>]

ShotFrozen == UNCHANGED <<typ, opt, fsm, entered, last, pvars, rvars, mvars, cw>>

\* The wall clock advances between calls.
ShotTick ==
    /\ now < MaxTime
    /\ now' = now + 1
    /\ shot' = [shot EXCEPT !.op = "tick", !.who = 0, !.pre = <<>>]
    /\ ShotFrozen

\* Transition(ctx, active, ts, opts), ts the instant of the call, on the
\* snapshotted machine or on a machine restored from the snapshot.
ShotTransition ==
    /\ \E i \in DOMAIN shot.fsms, active \in BOOLEAN :
           LET m == shot.fsms[i]
               r == AlertTransition(shot.typ, Load(shot.typ, shot.heap, m),
                                    active, now, shot.opt, now)
           IN  shot' = [shot EXCEPT
                   !.heap = StoreTable(shot.typ, shot.heap, m, r.fsm),
                   !.fsms = [@ EXCEPT ![i] = StoreFsm(shot.typ, m, r.fsm)],
                   !.op = "transition", !.who = i,
                   !.pre = OtherRestored(shot, i)]
    /\ UNCHANGED now
    /\ ShotFrozen

\* snap := m.Snapshot() of the first machine.
TakeSnapshot ==
    /\ shot.snap = NoData
    /\ LET snap == FsmSnapshot(shot.typ, shot.fsms[1])
       IN  shot' = [shot EXCEPT
               !.snap = snap,
               !.taken = LoadSnapshot(shot.typ, shot.heap, snap),
               !.op = "snapshot", !.who = 1, !.pre = <<>>]
    /\ UNCHANGED now
    /\ ShotFrozen

\* m := NewFsm(typ); m.Restore(snap).  Restore rebinds the machine's field
\* to the snapshot's table, and the table NewFsm made is garbage.
RestoreSnapshot ==
    /\ shot.snap # NoData
    /\ Len(shot.fsms) < 1 + MaxRestored
    /\ LET a == AllocFsm(shot.typ, shot.heap, now)
       IN  shot' = [shot EXCEPT
               !.heap = SubSeq(a.heap, 1, Len(shot.heap)),
               !.fsms = Append(@, FsmRestore(shot.typ, a.fsm, shot.snap)),
               !.op = "restore", !.who = Len(shot.fsms) + 1,
               !.pre = <<>>]
    /\ UNCHANGED now
    /\ ShotFrozen

NextShot == ShotTick \/ ShotTransition \/ TakeSnapshot \/ RestoreSnapshot

SpecShot == InitShot /\ [][NextShot]_<<vars, pvars, rvars, mvars, ovars>>

\* ---------------------------------------------------------------- C37
\* C37: after an Eval that returned no error, every alert of the active
\* set whose fingerprint no sample of the vector had is out of its
\* fully-inactive state.
C37_NoIdleAlertKept ==
    (IsEval /\ ~evalLog.err) =>
        \A fp \in DOMAIN rule.active \ evalLog.seen :
            ~FullyInactive(rule.active[fp])

\* ---------------------------------------------------------------- C39
\* The number of times key k occurs in the entries the window retains.
RECURSIVE Occurrences(_, _)
Occurrences(elems, k) ==
    IF elems = <<>> THEN 0
    ELSE Cardinality({ i \in 1..Len(Head(elems)) : Head(elems)[i] = k })
         + Occurrences(Tail(elems), k)

WindowCounted(w) ==
    /\ Len(w.elems) <= w.size - 1
    /\ DOMAIN w.elemCounts = { k \in WindowKeys : Occurrences(w.elems, k) > 0 }
    /\ \A k \in DOMAIN w.elemCounts : w.elemCounts[k] = Occurrences(w.elems, k)

\* C39: at every point of every sequence of Add and Adapt calls on a
\* window made by NewCounterWindow the window retains at most size-1
\* entries and elemCounts holds, for exactly the keys that occur in the
\* retained entries, the number of their occurrences; and every Adapt
\* call that is entered returns.
C39_WindowCountedAdaptReturns ==
    /\ [](WindowCounted(cw.w))
    /\ (cw.pc = "adapting") ~> (cw.pc = "idle")

\* An Adapt call that had to pop returned with the window full.
C39_Witness ==
    /\ cw.op = "adapt" /\ cw.pc = "idle" /\ cw.popped = 1
    /\ Len(cw.w.elems) = cw.w.size - 1
    /\ \E k \in DOMAIN cw.w.elemCounts : cw.w.elemCounts[k] = cw.w.limit

\* ---------------------------------------------------------------- C38
\* The snapshot reads as it read when Snapshot() returned it.
SnapshotKept ==
    shot.snap # NoData =>
        LoadSnapshot(shot.typ, shot.heap, shot.snap) = shot.taken

\* A transition of a restored machine left every other restored machine as
\* it was.
RestoredApart ==
    (shot.op = "transition" /\ shot.who > 1) =>
        \A j \in DOMAIN shot.pre :
            Load(shot.typ, shot.heap, shot.fsms[j]) = shot.pre[j]

\* C38: for both variants the value Snapshot() returned stays what it was
\* through every later transition of the machine it came from and of the
\* machines restored from it, and a transition of one restored machine
\* changes no other machine restored from the same snapshot.
C38_SnapshotIndependent == SnapshotKept /\ RestoredApart

====
